---- MODULE Spec2Model ----
(***************************************************************************)
(* State-machine model of the Game Boy (SM83) CPU core: the memory bus     *)
(* (gameboy/memory.rs), the register file (gameboy/cpu/registers.rs), the  *)
(* opcode decoder (gameboy/cpu/cpu_core.rs) and the instruction executor   *)
(* (gameboy/cpu/instructions.rs).                                          *)
(***************************************************************************)
EXTENDS Integers, Sequences, FiniteSets, TLC

VARIABLES
    registers,        \* Registers { af, bc, de, hl, sp, pc }
    memory,           \* Memory: one byte array per segment
    fault,            \* "none", or the kind of panic that ended the process
    overflow_checks,  \* build profile: TRUE = arithmetic overflow panics
    last,             \* record of the last call made on the core
    steps             \* number of calls made so far

vars == <<registers, memory, fault, overflow_checks, last, steps>>

(***************************************************************************)
(* Bounds of the model.                                                    *)
(***************************************************************************)
MaxMemOps == 2
MaxRegOps == 2
MaxTicks == 3

(***************************************************************************)
(* Integer arithmetic of fixed width.                                      *)
(***************************************************************************)
Pow2(n) == 2 ^ n

U8 == 0 .. 255

U16 == 0 .. 65535

Wrap8(x) == x % 256

Wrap16(x) == x % 65536

\* bitwise and of two naturals, over w bits
RECURSIVE BitAnd(_, _, _)
BitAnd(a, b, w) ==
    IF w = 0 THEN 0
    ELSE ((a % 2) * (b % 2)) + 2 * BitAnd(a \div 2, b \div 2, w - 1)

\* bitwise or of two naturals, over w bits
RECURSIVE BitOr(_, _, _)
BitOr(a, b, w) ==
    IF w = 0 THEN 0
    ELSE (IF (a % 2) + (b % 2) > 0 THEN 1 ELSE 0) + 2 * BitOr(a \div 2, b \div 2, w - 1)

\* bitwise exclusive or of two naturals, over w bits
RECURSIVE BitXor(_, _, _)
BitXor(a, b, w) ==
    IF w = 0 THEN 0
    ELSE (((a % 2) + (b % 2)) % 2) + 2 * BitXor(a \div 2, b \div 2, w - 1)

\* `byte as i8 as i16`: sign extension of a byte
sign_extend(byte) == IF byte >= 128 THEN byte - 256 ELSE byte

(***************************************************************************)
(* utils/bytes.rs                                                          *)
(***************************************************************************)
get_hi(n) == (n \div 256) % 256

get_lo(n) == n % 256

set_hi(n, hi) == BitOr(BitAnd(n, \h00FF, 16), hi * 256, 16)

\* variant of set_lo: the old value is not masked in
set_lo_unmasked(n, lo) == lo

set_lo(n, lo) == BitOr(BitAnd(n, \hFF00, 16), lo, 16)

combine(hi, lo) == BitOr(hi * 256, lo, 16)

split(n) == <<get_hi(n), get_lo(n)>>

get_bit_u16(n, index) == (n \div Pow2(index)) % 2

\* a bit read that ignores the index and returns bit 0
get_bit_u8_lowest(n, index) == n % 2

get_bit_u8(n, index) == (n \div Pow2(index)) % 2

\* the two assert!s at the head of set_bit_u16
set_bit_u16_asserts(index, value) == index < 16 /\ value \in {0, 1}

set_bit_u16(n, index, value) ==
    IF value = 1
    THEN BitOr(n, Pow2(index), 16)
    ELSE BitAnd(n, 65535 - Pow2(index), 16)

(***************************************************************************)
(* gameboy/memory.rs: the segment table                                    *)
(***************************************************************************)
ROM_00_START == \h0000
ROM_00_END == \h3FFF
ROM_NN_START == \h4000
ROM_NN_END == \h7FFF
VRAM_START == \h8000
VRAM_END == \h9FFF
EXRAM_START == \hA000
EXRAM_END == \hBFFF
WRAM_0_START == \hC000
WRAM_0_END == \hCFFF
WRAM_NN_START == \hD000
WRAM_NN_END == \hDFFF
ECHO_RAM_START == \hE000
ECHO_RAM_END == \hFDFF
OAM_START == \hFE00
OAM_END == \hFE9F
IO_START == \hFF00
IO_END == \hFF7F
HRAM_START == \hFF80
HRAM_END == \hFFFE
IE_START == \hFFFF
IE_END == \hFFFF

\* the arms of the match in read_byte / write_byte, in source order
SegTable ==
    << [name |-> "rom_00",  start |-> ROM_00_START,   end |-> ROM_00_END],
       [name |-> "rom_nn",  start |-> ROM_NN_START,   end |-> ROM_NN_END],
       [name |-> "vram",    start |-> VRAM_START,     end |-> VRAM_END],
       [name |-> "exram",   start |-> EXRAM_START,    end |-> EXRAM_END],
       [name |-> "wram_0",  start |-> WRAM_0_START,   end |-> WRAM_0_END],
       [name |-> "wram_nn", start |-> WRAM_NN_START,  end |-> WRAM_NN_END],
       [name |-> "echo",    start |-> ECHO_RAM_START, end |-> ECHO_RAM_END],
       [name |-> "oam",     start |-> OAM_START,      end |-> OAM_END],
       [name |-> "io",      start |-> IO_START,       end |-> IO_END],
       [name |-> "hram",    start |-> HRAM_START,     end |-> HRAM_END],
       [name |-> "ie",      start |-> IE_START,       end |-> IE_END] >>

SegNames == {"rom_00", "rom_nn", "vram", "exram", "wram_0", "wram_nn",
             "echo", "oam", "io", "hram", "ie"}

\* X_SIZE = X_END - X_START + 1, the length of the segment's array
SegSize(seg) == seg.end - seg.start + 1

\* the range pattern START..=END of an arm
InRange(seg, adress) == seg.start <= adress /\ adress <= seg.end

\* indices of the match arms whose range contains the address
Matching(adress) ==
    {i \in 1 .. Len(SegTable) : InRange(SegTable[i], adress)}

NoSegment == [name |-> "invalid", start |-> 0, end |-> 0]

\* the first of the matching arms, or `_ => panic!("Invalid adress")`
FirstArm(matching) ==
    IF matching = {} THEN NoSegment
    ELSE SegTable[CHOOSE i \in matching : \A j \in matching : i <= j]

\* the first arm that matches wins
Route(adress) == FirstArm(Matching(adress))

\* An array [u8; SIZE] created as [0; SIZE] is held as the function from
\* the indices of its non-zero bytes to those bytes.
ZeroArray == [i \in {} |-> 0]

ArrayGet(arr, i) == IF i \in DOMAIN arr THEN arr[i] ELSE 0

ArraySet(arr, i, v) ==
    IF v = 0
    THEN [j \in (DOMAIN arr) \ {i} |-> arr[j]]
    ELSE [j \in (DOMAIN arr) \cup {i} |-> IF j = i THEN v ELSE arr[j]]

\* Memory::new
MemoryNew == [s \in SegNames |-> ZeroArray]

\* variant of bus_panic: the echo RAM arm stores into its array instead of
\* panicking
bus_panic_echo_backed(adress) ==
    LET seg == Route(adress) IN
    IF seg.name = "invalid" THEN "bus"
    ELSE IF adress - seg.start >= SegSize(seg) THEN "index"
    ELSE "none"

\* the body of an arm of read_byte / write_byte: the echo RAM arm and the
\* catch-all arm panic, the others index the segment's array
arm_panic(seg, adress) ==
    IF seg.name = "echo" THEN "bus"
    ELSE IF seg.name = "invalid" THEN "bus"
    ELSE IF adress - seg.start >= SegSize(seg) THEN "index"
    ELSE "none"

\* the panic of read_byte / write_byte: "none" when the access goes through
bus_panic(adress) == arm_panic(Route(adress), adress)

\* self.segment[(adress - SEGMENT_START) as usize]
arm_read(mem, seg, adress) == ArrayGet(mem[seg.name], adress - seg.start)

\* Memory::read_byte, for an address that does not panic
read_byte(mem, adress) == arm_read(mem, Route(adress), adress)

\* self.segment[(adress - SEGMENT_START) as usize] = value
arm_write(mem, seg, adress, value) ==
    [mem EXCEPT ![seg.name] = ArraySet(@, adress - seg.start, value)]

\* Memory::write_byte, for an address that does not panic
write_byte(mem, adress, value) ==
    arm_write(mem, Route(adress), adress, value)

\* `adress + 1`, `pc += 1`, `sp - 2`, ...: u16 arithmetic written with the
\* plain operators panics on overflow when the build checks overflow and
\* wraps otherwise
arith_panic(x) ==
    IF (x > 65535 \/ x < 0) /\ overflow_checks THEN "overflow" ELSE "none"

\* Memory::read_word: [val, fault]
read_word(mem, adress) ==
    IF bus_panic(adress) # "none"
    THEN [val |-> 0, fault |-> bus_panic(adress)]
    ELSE IF arith_panic(adress + 1) # "none"
    THEN [val |-> 0, fault |-> arith_panic(adress + 1)]
    ELSE IF bus_panic(Wrap16(adress + 1)) # "none"
    THEN [val |-> 0, fault |-> bus_panic(Wrap16(adress + 1))]
    ELSE [val |-> combine(read_byte(mem, Wrap16(adress + 1)),
                          read_byte(mem, adress)),
          fault |-> "none"]

\* variant of write_word: the two bytes are stored in big-endian order
write_word_big_endian(mem, adress, value) ==
    LET hi == split(value)[1]
        lo == split(value)[2]
    IN
    IF bus_panic(adress) # "none"
    THEN [memory |-> mem, fault |-> bus_panic(adress)]
    ELSE LET m1 == write_byte(mem, adress, hi) IN
         IF arith_panic(adress + 1) # "none"
         THEN [memory |-> m1, fault |-> arith_panic(adress + 1)]
         ELSE IF bus_panic(Wrap16(adress + 1)) # "none"
         THEN [memory |-> m1, fault |-> bus_panic(Wrap16(adress + 1))]
         ELSE [memory |-> write_byte(m1, Wrap16(adress + 1), lo),
               fault |-> "none"]

\* Memory::write_word: [memory, fault]; the low byte is stored before the
\* high byte is attempted
write_word(mem, adress, value) ==
    LET hi == split(value)[1]
        lo == split(value)[2]
    IN
    IF bus_panic(adress) # "none"
    THEN [memory |-> mem, fault |-> bus_panic(adress)]
    ELSE LET m1 == write_byte(mem, adress, lo) IN
         IF arith_panic(adress + 1) # "none"
         THEN [memory |-> m1, fault |-> arith_panic(adress + 1)]
         ELSE IF bus_panic(Wrap16(adress + 1)) # "none"
         THEN [memory |-> m1, fault |-> bus_panic(Wrap16(adress + 1))]
         ELSE [memory |-> write_byte(m1, Wrap16(adress + 1), hi),
               fault |-> "none"]

(***************************************************************************)
(* gameboy/cpu/registers.rs                                                *)
(***************************************************************************)
Register16 == {"AF", "BC", "DE", "HL", "SP", "PC"}

Register8 == {"A", "F", "B", "C", "D", "E", "H", "L"}

Flag == {"Z", "N", "H", "C"}

\* Registers::new
RegistersNew(af, bc, de, hl, sp, pc) ==
    [af |-> af, bc |-> bc, de |-> de, hl |-> hl, sp |-> sp, pc |-> pc]

read_16(regs, register) ==
    CASE register = "AF" -> regs.af
      [] register = "BC" -> regs.bc
      [] register = "DE" -> regs.de
      [] register = "HL" -> regs.hl
      [] register = "SP" -> regs.sp
      [] register = "PC" -> regs.pc

write_16(regs, register, value) ==
    CASE register = "AF" -> [regs EXCEPT !.af = value]
      [] register = "BC" -> [regs EXCEPT !.bc = value]
      [] register = "DE" -> [regs EXCEPT !.de = value]
      [] register = "HL" -> [regs EXCEPT !.hl = value]
      [] register = "SP" -> [regs EXCEPT !.sp = value]
      [] register = "PC" -> [regs EXCEPT !.pc = value]

read_8(regs, register) ==
    CASE register = "A" -> get_hi(regs.af)
      [] register = "F" -> get_lo(regs.af)
      [] register = "B" -> get_hi(regs.bc)
      [] register = "C" -> get_lo(regs.bc)
      [] register = "D" -> get_hi(regs.de)
      [] register = "E" -> get_lo(regs.de)
      [] register = "H" -> get_hi(regs.hl)
      [] register = "L" -> get_lo(regs.hl)

\* a byte write whose A arm stores the whole AF pair, clearing F
write_8_whole_pair(regs, register, value) ==
    CASE register = "A" -> [regs EXCEPT !.af = combine(value, 0)]
      [] register = "F" -> [regs EXCEPT !.af = set_lo(@, value)]
      [] register = "B" -> [regs EXCEPT !.bc = set_hi(@, value)]
      [] register = "C" -> [regs EXCEPT !.bc = set_lo(@, value)]
      [] register = "D" -> [regs EXCEPT !.de = set_hi(@, value)]
      [] register = "E" -> [regs EXCEPT !.de = set_lo(@, value)]
      [] register = "H" -> [regs EXCEPT !.hl = set_hi(@, value)]
      [] register = "L" -> [regs EXCEPT !.hl = set_lo(@, value)]

write_8(regs, register, value) ==
    CASE register = "A" -> [regs EXCEPT !.af = set_hi(@, value)]
      [] register = "F" -> [regs EXCEPT !.af = set_lo(@, value)]
      [] register = "B" -> [regs EXCEPT !.bc = set_hi(@, value)]
      [] register = "C" -> [regs EXCEPT !.bc = set_lo(@, value)]
      [] register = "D" -> [regs EXCEPT !.de = set_hi(@, value)]
      [] register = "E" -> [regs EXCEPT !.de = set_lo(@, value)]
      [] register = "H" -> [regs EXCEPT !.hl = set_hi(@, value)]
      [] register = "L" -> [regs EXCEPT !.hl = set_lo(@, value)]

\* the bit of af that read_flag / write_flag use for each flag
flag_index(flag) ==
    CASE flag = "Z" -> 0
      [] flag = "N" -> 1
      [] flag = "H" -> 2
      [] flag = "C" -> 3

read_flag(regs, flag) == get_bit_u16(regs.af, flag_index(flag))

\* variant of write_flag: F is rebuilt from the written flag alone
write_flag_rebuilt(regs, flag, value) ==
    [regs EXCEPT !.af = set_lo(@, value * Pow2(flag_index(flag)))]

\* Registers::write_flag, for a value that passes set_bit_u16's asserts
write_flag(regs, flag, value) ==
    [regs EXCEPT !.af = set_bit_u16(@, flag_index(flag), value)]

\* variant of CpuNew: PC starts at the cartridge entry point 0x0100
CpuNew_entry_point == RegistersNew(0, 0, 0, 0, 0, \h0100)

\* Cpu::new
CpuNew == RegistersNew(0, 0, 0, 0, 0, 0)

(***************************************************************************)
(* gameboy/cpu/instruction_variables.rs: operand selectors.  A selector    *)
(* the conversion rejects is "panic".                                      *)
(***************************************************************************)
R8From(r) ==
    CASE r = 0 -> "B"
      [] r = 1 -> "C"
      [] r = 2 -> "D"
      [] r = 3 -> "E"
      [] r = 4 -> "H"
      [] r = 5 -> "L"
      [] r = 7 -> "A"
      [] OTHER -> "panic"

R16From(r) ==
    CASE r = 0 -> "BC"
      [] r = 1 -> "DE"
      [] r = 2 -> "HL"
      [] r = 3 -> "SP"
      [] OTHER -> "panic"

R16StkFrom(r) ==
    CASE r = 0 -> "BC"
      [] r = 1 -> "DE"
      [] r = 2 -> "HL"
      [] r = 3 -> "AF"
      [] OTHER -> "panic"

R16MemFrom(r) ==
    CASE r = 0 -> "BC"
      [] r = 1 -> "DE"
      [] r = 2 -> "Hli"
      [] r = 3 -> "Hld"
      [] OTHER -> "panic"

\* B3::from: the bit index; values above 7 panic
B3From(b) == b

B3Valid(b) == b \in 0 .. 7

CondFrom(cnd) ==
    CASE cnd = 0 -> "NotZero"
      [] cnd = 1 -> "Zero"
      [] cnd = 2 -> "NotCarry"
      [] cnd = 3 -> "Carry"
      [] OTHER -> "panic"

\* TGT3::from, and the discriminant `tgt as u16` of the variant
Tgt3From(t) == t * 8

Tgt3Valid(t) == t \in 0 .. 7

\* the conversion of the selector returns (does not panic)
Valid(selector) == selector # "panic"

(***************************************************************************)
(* gameboy/cpu/cpu_core.rs: fetch and decode.  A machine is the pair of    *)
(* Cpu and Memory a call works on, with the panic that ended the call (or  *)
(* "none") and the value the call returned.                                *)
(***************************************************************************)
Machine(regs, mem) ==
    [registers |-> regs, memory |-> mem, fault |-> "none", ret |-> 0]

Panic(c, kind) == [c EXCEPT !.fault = kind]

\* Cpu::fetch_byte: [c, val]
fetch_byte(c) ==
    LET pc == c.registers.pc IN
    IF c.fault # "none" THEN [c |-> c, val |-> 0]
    ELSE IF bus_panic(pc) # "none"
    THEN [c |-> Panic(c, bus_panic(pc)), val |-> 0]
    ELSE IF arith_panic(pc + 1) # "none"
    THEN [c |-> Panic(c, arith_panic(pc + 1)), val |-> 0]
    ELSE [c |-> [c EXCEPT !.registers.pc = Wrap16(pc + 1)],
          val |-> read_byte(c.memory, pc)]

\* the second half of fetch_word: `self.registers.pc += 2` after the read
advance_word(c, word, n) ==
    LET pc == c.registers.pc IN
    IF c.fault # "none" THEN [c |-> c, val |-> 0]
    ELSE IF word.fault # "none"
    THEN [c |-> Panic(c, word.fault), val |-> 0]
    ELSE IF arith_panic(pc + n) # "none"
    THEN [c |-> Panic(c, arith_panic(pc + n)), val |-> 0]
    ELSE [c |-> [c EXCEPT !.registers.pc = Wrap16(pc + n)],
          val |-> word.val]

\* variant of fetch_word: the program counter moves past one byte only
fetch_word_single_step(c) ==
    advance_word(c, read_word(c.memory, c.registers.pc), 1)

\* Cpu::fetch_word: [c, val]
fetch_word(c) == advance_word(c, read_word(c.memory, c.registers.pc), 2)

\* the bit fields of an opcode: xxyyzzzz == xxaaabbb == iiijjbbb
op_xx(opcode) == opcode \div 64

op_yy(opcode) == (opcode \div 16) % 4

op_zzzz(opcode) == opcode % 16

op_aaa(opcode) == (opcode \div 8) % 8

op_bbb(opcode) == opcode % 8

op_iii(opcode) == opcode \div 32

op_jj(opcode) == (opcode \div 8) % 4

\* the wildcard `_` of a pattern
ANY == -1

MatchTuple(t, p) == \A k \in 1 .. 3 : p[k] = ANY \/ p[k] = t[k]

\* pattern on (xx, yy, zzzz)
P1(opcode, x, y, z) ==
    MatchTuple(<<op_xx(opcode), op_yy(opcode), op_zzzz(opcode)>>, <<x, y, z>>)

\* pattern on (xx, aaa, bbb)
P2(opcode, x, a, b) ==
    MatchTuple(<<op_xx(opcode), op_aaa(opcode), op_bbb(opcode)>>, <<x, a, b>>)

\* pattern on (iii, jj, bbb)
P3(opcode, i, j, b) ==
    MatchTuple(<<op_iii(opcode), op_jj(opcode), op_bbb(opcode)>>, <<i, j, b>>)

\* Instruction values
Ins0(op) == [op |-> op]

Ins1(op, x) == [op |-> op, x |-> x]

Ins2(op, x, y) == [op |-> op, x |-> x, y |-> y]

\* the result of a decode arm: the instruction and the machine after the
\* operands were fetched; a selector conversion that panics ends the fetch
\* before any operand is fetched
Decoded(ins, valid, c_after, c_before) ==
    IF ~valid
    THEN [ins |-> Ins0("panic"), c |-> Panic(c_before, "invalid_selector")]
    ELSE [ins |-> ins, c |-> c_after]

\* map_prefixed_instruction
map_prefixed_instruction(byte) ==
    LET xx == byte \div 64
        aaa == (byte \div 8) % 8
        bbb == byte % 8
        M(x, a, b) == MatchTuple(<<xx, aaa, bbb>>, <<x, a, b>>)
        R(op) == [ins |-> Ins1(op, R8From(bbb)), valid |-> Valid(R8From(bbb))]
        H(op) == [ins |-> Ins0(op), valid |-> TRUE]
    IN
    IF M(0, 0, 6) THEN H("RlcMemHl")
    ELSE IF M(0, 0, ANY) THEN R("RlcR8")
    ELSE IF M(0, 1, 6) THEN H("RrcMemHl")
    ELSE IF M(0, 1, ANY) THEN R("RrcR8")
    ELSE IF M(0, 2, 6) THEN H("RlMemHl")
    ELSE IF M(0, 2, ANY) THEN R("RlR8")
    ELSE IF M(0, 3, 6) THEN H("RrMemHl")
    ELSE IF M(0, 3, ANY) THEN R("RrR8")
    ELSE IF M(0, 4, 6) THEN H("SlaMemHl")
    ELSE IF M(0, 4, ANY) THEN R("SlaR8")
    ELSE IF M(0, 5, 6) THEN H("SraMemHl")
    ELSE IF M(0, 5, ANY) THEN R("SraR8")
    ELSE IF M(0, 6, 6) THEN H("SwapMemHl")
    ELSE IF M(0, 6, ANY) THEN R("SwapR8")
    ELSE IF M(0, 7, 6) THEN H("SrlMemHl")
    ELSE IF M(0, 7, ANY) THEN R("SrlR8")
    ELSE IF M(1, ANY, 6)
    THEN [ins |-> Ins1("BitB3MemHl", B3From(aaa)), valid |-> B3Valid(aaa)]
    ELSE IF M(1, ANY, ANY)
    THEN [ins |-> Ins2("BitB3R8", B3From(aaa), R8From(bbb)),
          valid |-> B3Valid(aaa) /\ Valid(R8From(bbb))]
    ELSE IF M(2, ANY, 6)
    THEN [ins |-> Ins1("ResB3MemHl", B3From(aaa)), valid |-> B3Valid(aaa)]
    ELSE IF M(2, ANY, ANY)
    THEN [ins |-> Ins2("ResB3R8", B3From(aaa), R8From(bbb)),
          valid |-> B3Valid(aaa) /\ Valid(R8From(bbb))]
    ELSE IF M(3, ANY, 6)
    THEN [ins |-> Ins1("SetB3MemHl", B3From(aaa)), valid |-> B3Valid(aaa)]
    ELSE IF M(3, ANY, ANY)
    THEN [ins |-> Ins2("SetB3R8", B3From(aaa), R8From(bbb)),
          valid |-> B3Valid(aaa) /\ Valid(R8From(bbb))]
    ELSE [ins |-> Ins0("unknown_prefixed"), valid |-> FALSE]

\* fetch_instruction, the arms of block 3 and the final `_ => panic!`
block3_arms(c, opcode, fb, fw) ==
    LET yy == op_yy(opcode)
        aaa == op_aaa(opcode)
        jj == op_jj(opcode)
        B(op) == Decoded(Ins1(op, fb.val), TRUE, fb.c, c)
        W(op) == Decoded(Ins1(op, fw.val), TRUE, fw.c, c)
        N(op) == Decoded(Ins0(op), TRUE, c, c)
    IN
    IF P1(opcode, 3, 0, \h6) THEN B("AddAImm8")
    ELSE IF P1(opcode, 3, 0, \hE) THEN B("AdcAImm8")
    ELSE IF P1(opcode, 3, 1, \h6) THEN B("SubAImm8")
    ELSE IF P1(opcode, 3, 1, \hE) THEN B("SbcAImm8")
    ELSE IF P1(opcode, 3, 2, \h6) THEN B("AndAImm8")
    ELSE IF P1(opcode, 3, 2, \hE) THEN B("XorAImm8")
    ELSE IF P1(opcode, 3, 3, \h6) THEN B("OrAImm8")
    ELSE IF P1(opcode, 3, 3, \hE) THEN B("CpAImm8")
    ELSE IF P3(opcode, 6, ANY, 0)
    THEN Decoded(Ins1("RetCond", CondFrom(jj)), Valid(CondFrom(jj)), c, c)
    ELSE IF P3(opcode, 6, 1, 1) THEN N("Ret")
    ELSE IF P3(opcode, 6, 3, 1) THEN N("Reti")
    ELSE IF P3(opcode, 6, ANY, 2)
    THEN Decoded(Ins2("JpCondImm16", CondFrom(jj), fw.val),
                 Valid(CondFrom(jj)), fw.c, c)
    ELSE IF P3(opcode, 6, 0, 3) THEN W("JpImm16")
    ELSE IF P3(opcode, 7, 1, 1) THEN N("JpHl")
    ELSE IF P3(opcode, 6, ANY, 4)
    THEN Decoded(Ins2("CallCondImm16", CondFrom(jj), fw.val),
                 Valid(CondFrom(jj)), fw.c, c)
    ELSE IF P3(opcode, 6, 1, 5) THEN W("CallImm16")
    ELSE IF P2(opcode, 3, ANY, 7)
    THEN Decoded(Ins1("RstTgt3", Tgt3From(aaa)), Tgt3Valid(aaa), c, c)
    ELSE IF P1(opcode, 3, ANY, \h1)
    THEN Decoded(Ins1("PopR16Stk", R16StkFrom(yy)),
                 Valid(R16StkFrom(yy)), c, c)
    ELSE IF P1(opcode, 3, ANY, \h5)
    THEN Decoded(Ins1("PushR16Stk", R16StkFrom(yy)),
                 Valid(R16StkFrom(yy)), c, c)
    ELSE IF P1(opcode, 3, 0, \hB)
    THEN IF fb.c.fault # "none"
         THEN [ins |-> Ins0("panic"), c |-> fb.c]
         ELSE IF map_prefixed_instruction(fb.val).ins.op = "unknown_prefixed"
         THEN [ins |-> Ins0("panic"), c |-> Panic(fb.c, "unknown_opcode")]
         ELSE Decoded(map_prefixed_instruction(fb.val).ins,
                      map_prefixed_instruction(fb.val).valid, fb.c, fb.c)
    ELSE IF P1(opcode, 3, 2, \h2) THEN N("LdhMemCA")
    ELSE IF P1(opcode, 3, 2, \h0) THEN B("LdhMemImm8A")
    ELSE IF P1(opcode, 3, 2, \hA) THEN W("LdMemImm16A")
    ELSE IF P1(opcode, 3, 3, \h2) THEN N("LdAMemC")
    ELSE IF P1(opcode, 3, 3, \h0) THEN B("LdhAMemImm8")
    ELSE IF P1(opcode, 3, 3, \hA) THEN W("LdAMemImm16")
    ELSE IF P1(opcode, 3, 2, \h8) THEN B("AddSpImm8")
    ELSE IF P1(opcode, 3, 3, \h8) THEN B("LdHlSpImm8")
    ELSE IF P1(opcode, 3, 3, \h9) THEN N("LdSpHl")
    ELSE IF P1(opcode, 3, 3, \h3) THEN N("Di")
    ELSE IF P1(opcode, 3, 3, \hB) THEN N("Ei")
    ELSE [ins |-> Ins0("panic"), c |-> Panic(c, "unknown_opcode")]

\* block 3 of the match in fetch_instruction
decode_block3(c, opcode) ==
    block3_arms(c, opcode, fetch_byte(c), fetch_word(c))

\* fetch_instruction, the arms of block 2
decode_block2(c, opcode) ==
    LET bbb == op_bbb(opcode)
        R(op) == Decoded(Ins1(op, R8From(bbb)), Valid(R8From(bbb)), c, c)
        H(op) == Decoded(Ins0(op), TRUE, c, c)
    IN
    IF P2(opcode, 2, 0, 6) THEN H("AddAMemHl")
    ELSE IF P2(opcode, 2, 0, ANY) THEN R("AddAR8")
    ELSE IF P2(opcode, 2, 1, 6) THEN H("AdcAMemHl")
    ELSE IF P2(opcode, 2, 1, ANY) THEN R("AdcAR8")
    ELSE IF P2(opcode, 2, 2, 6) THEN H("SubAMemHl")
    ELSE IF P2(opcode, 2, 2, ANY) THEN R("SubAR8")
    ELSE IF P2(opcode, 2, 3, 6) THEN H("SbcAMemHl")
    ELSE IF P2(opcode, 2, 3, ANY) THEN R("SbcAR8")
    ELSE IF P2(opcode, 2, 4, 6) THEN H("AndAMemHl")
    ELSE IF P2(opcode, 2, 4, ANY) THEN R("AndAR8")
    ELSE IF P2(opcode, 2, 5, 6) THEN H("XorAMemHl")
    ELSE IF P2(opcode, 2, 5, ANY) THEN R("XorAR8")
    ELSE IF P2(opcode, 2, 6, 6) THEN H("OrAMemHl")
    ELSE IF P2(opcode, 2, 6, ANY) THEN R("OrAR8")
    ELSE IF P2(opcode, 2, 7, 6) THEN H("CpAMemHl")
    ELSE IF P2(opcode, 2, 7, ANY) THEN R("CpAR8")
    ELSE decode_block3(c, opcode)

\* variant of decode_block1: the general LD (HL), R8 pattern is tried
\* before the HALT literal
decode_block1_halt_last(c, opcode) ==
    LET aaa == op_aaa(opcode)
        bbb == op_bbb(opcode)
    IN
    IF P2(opcode, 1, 6, ANY)
    THEN Decoded(Ins1("LdMemHlR8", R8From(bbb)), Valid(R8From(bbb)), c, c)
    ELSE IF P2(opcode, 1, 6, 6) THEN Decoded(Ins0("Halt"), TRUE, c, c)
    ELSE IF P2(opcode, 1, ANY, 6)
    THEN Decoded(Ins1("LdR8MemHl", R8From(aaa)), Valid(R8From(aaa)), c, c)
    ELSE IF P2(opcode, 1, ANY, ANY)
    THEN Decoded(Ins2("LdR8R8", R8From(aaa), R8From(bbb)),
                 Valid(R8From(aaa)) /\ Valid(R8From(bbb)), c, c)
    ELSE decode_block2(c, opcode)

\* fetch_instruction, the arms of block 1
decode_block1(c, opcode) ==
    LET aaa == op_aaa(opcode)
        bbb == op_bbb(opcode)
    IN
    IF P2(opcode, 1, 6, 6) THEN Decoded(Ins0("Halt"), TRUE, c, c)
    ELSE IF P2(opcode, 1, 6, ANY)
    THEN Decoded(Ins1("LdMemHlR8", R8From(bbb)), Valid(R8From(bbb)), c, c)
    ELSE IF P2(opcode, 1, ANY, 6)
    THEN Decoded(Ins1("LdR8MemHl", R8From(aaa)), Valid(R8From(aaa)), c, c)
    ELSE IF P2(opcode, 1, ANY, ANY)
    THEN Decoded(Ins2("LdR8R8", R8From(aaa), R8From(bbb)),
                 Valid(R8From(aaa)) /\ Valid(R8From(bbb)), c, c)
    ELSE decode_block2(c, opcode)

\* fetch_instruction, the arms of block 0
block0_arms(c, opcode, fb, fw) ==
    LET yy == op_yy(opcode)
        aaa == op_aaa(opcode)
        jj == op_jj(opcode)
        N(op) == Decoded(Ins0(op), TRUE, c, c)
        R16(op) == Decoded(Ins1(op, R16From(yy)), Valid(R16From(yy)), c, c)
        R16M(op) ==
            Decoded(Ins1(op, R16MemFrom(yy)), Valid(R16MemFrom(yy)), c, c)
        R8(op) == Decoded(Ins1(op, R8From(aaa)), Valid(R8From(aaa)), c, c)
    IN
    IF P1(opcode, 0, 0, \h0) THEN N("Nop")
    ELSE IF P1(opcode, 0, ANY, \h1)
    THEN Decoded(Ins2("LdR16Imm16", R16From(yy), fw.val),
                 Valid(R16From(yy)), fw.c, c)
    ELSE IF P1(opcode, 0, ANY, \h2) THEN R16M("LdR16MemA")
    ELSE IF P1(opcode, 0, ANY, \hA) THEN R16M("LdAR16Mem")
    ELSE IF P1(opcode, 0, 0, \h8)
    THEN Decoded(Ins1("LdMemImm16SP", fw.val), TRUE, fw.c, c)
    ELSE IF P1(opcode, 0, ANY, \h3) THEN R16("IncR16")
    ELSE IF P1(opcode, 0, ANY, \hB) THEN R16("DecR16")
    ELSE IF P1(opcode, 0, ANY, \h9) THEN R16("AddHlR16")
    ELSE IF P2(opcode, 0, 6, 4) THEN N("IncMemHl")
    ELSE IF P2(opcode, 0, ANY, 4) THEN R8("IncR8")
    ELSE IF P2(opcode, 0, 6, 5) THEN N("DecMemHl")
    ELSE IF P2(opcode, 0, ANY, 5) THEN R8("DecR8")
    ELSE IF P2(opcode, 0, 6, 6)
    THEN Decoded(Ins1("LdMemHlImm8", fb.val), TRUE, fb.c, c)
    ELSE IF P2(opcode, 0, ANY, 6)
    THEN Decoded(Ins2("LdR8Imm8", R8From(aaa), fb.val),
                 Valid(R8From(aaa)), fb.c, c)
    ELSE IF P1(opcode, 0, 0, \h7) THEN N("Rlca")
    ELSE IF P1(opcode, 0, 0, \hF) THEN N("Rrca")
    ELSE IF P1(opcode, 0, 1, \h7) THEN N("Rla")
    ELSE IF P1(opcode, 0, 1, \hF) THEN N("Rra")
    ELSE IF P1(opcode, 0, 2, \h7) THEN N("Daa")
    ELSE IF P1(opcode, 0, 2, \hF) THEN N("Cpl")
    ELSE IF P1(opcode, 0, 3, \h7) THEN N("Scf")
    ELSE IF P1(opcode, 0, 3, \hF) THEN N("Ccf")
    ELSE IF P3(opcode, 0, 3, 0)
    THEN Decoded(Ins1("JrImm8", fb.val), TRUE, fb.c, c)
    ELSE IF P3(opcode, 1, ANY, 0)
    THEN Decoded(Ins2("JrCondImm8", CondFrom(jj), fb.val),
                 Valid(CondFrom(jj)), fb.c, c)
    ELSE IF P1(opcode, 0, 1, \h0) THEN N("Stop")
    ELSE decode_block1(c, opcode)

\* block 0 of the match in fetch_instruction
decode_block0(c, opcode) ==
    block0_arms(c, opcode, fetch_byte(c), fetch_word(c))

\* variant of decode_opcode: the first byte 0xED decodes to NOP
decode_opcode_ed_nop(f0) ==
    IF f0.c.fault # "none" THEN [ins |-> Ins0("panic"), c |-> f0.c]
    ELSE IF f0.val = \hED THEN [ins |-> Ins0("Nop"), c |-> f0.c]
    ELSE decode_block0(f0.c, f0.val)

\* the match of fetch_instruction on the opcode just fetched
decode_opcode(f0) ==
    IF f0.c.fault # "none" THEN [ins |-> Ins0("panic"), c |-> f0.c]
    ELSE decode_block0(f0.c, f0.val)

\* Cpu::fetch_instruction: [ins, c]
fetch_instruction(c) == decode_opcode(fetch_byte(c))

(***************************************************************************)
(* gameboy/cpu/instructions.rs: helpers of the executor                    *)
(***************************************************************************)
Bool(b) == IF b THEN 1 ELSE 0

\* a run of cpu.registers.write_flag(flag, value) calls, in order
RECURSIVE WriteFlags(_, _)
WriteFlags(regs, fs) ==
    IF fs = <<>> THEN regs
    ELSE WriteFlags(write_flag(regs, fs[1][1], fs[1][2]), Tail(fs))

check_half_carry_add_u8(left, right) ==
    BitAnd(BitAnd(left, \hF, 8) + BitAnd(right, \hF, 8), \h10, 8) # 0

\* a half-carry test that looks at the carry out of bit 3
check_half_carry_add_u16_bit3(left, right) ==
    BitAnd(BitAnd(left, \hF, 16) + BitAnd(right, \hF, 16), \h10, 16) # 0

check_half_carry_add_u16_bit11(left, right) ==
    BitAnd(BitAnd(left, \hFFF, 16) + BitAnd(right, \hFFF, 16), \h1000, 16) # 0

check_half_carry_add_u16_bit7(left, right) ==
    BitAnd(BitAnd(left, \hFF, 16) + BitAnd(right, \hFF, 16), \h100, 16) # 0

check_half_borrow_sub_u8(left, right) ==
    BitAnd(left, \hF, 8) < BitAnd(right, \hF, 8)

\* u8::overflowing_add / overflowing_sub: <<result, overflow>>
overflowing_add_u8(a, b) == <<Wrap8(a + b), a + b > 255>>

overflowing_sub_u8(a, b) == <<Wrap8(a - b), a < b>>

\* u16::overflowing_add / overflowing_add_signed: <<result, overflow>>
overflowing_add_u16(a, b) == <<Wrap16(a + b), a + b > 65535>>

overflowing_add_signed_u16(a, b) ==
    <<Wrap16(a + b), a + b > 65535 \/ a + b < 0>>

Ret(c, cycles) == [c EXCEPT !.ret = cycles]

SetRegs(c, regs) == [c EXCEPT !.registers = regs]

\* memory.read_byte(address) inside an instruction: [c, val]
LoadByte(c, address) ==
    IF bus_panic(address) # "none"
    THEN [c |-> Panic(c, bus_panic(address)), val |-> 0]
    ELSE [c |-> c, val |-> read_byte(c.memory, address)]

\* memory.write_byte(address, value) inside an instruction
StoreByte(c, address, value) ==
    IF bus_panic(address) # "none" THEN Panic(c, bus_panic(address))
    ELSE [c EXCEPT !.memory = write_byte(@, address, value)]

\* the machine after a write_word that left [memory, fault]
Written(c, written) ==
    [c EXCEPT !.memory = written.memory, !.fault = written.fault]

\* variant of StoreWord: a word store that faults leaves memory as it was
StoreWord_all_or_nothing(c, address, value) ==
    IF write_word(c.memory, address, value).fault # "none"
    THEN Panic(c, write_word(c.memory, address, value).fault)
    ELSE Written(c, write_word(c.memory, address, value))

\* memory.write_word(address, value) inside an instruction
StoreWord(c, address, value) ==
    Written(c, write_word(c.memory, address, value))

\* the end of an arm: the cycle count is returned unless the arm panicked
Returned(c, cycles) == IF c.fault # "none" THEN c ELSE Ret(c, cycles)

\* a condition match whose NotCarry arm tests for a set carry
cond_holds_carry_set(regs, condition) ==
    CASE condition = "Zero" -> read_flag(regs, "Z") = 1
      [] condition = "NotZero" -> read_flag(regs, "Z") = 0
      [] condition = "Carry" -> read_flag(regs, "C") = 1
      [] condition = "NotCarry" -> read_flag(regs, "C") = 1

\* the condition of a conditional jump, call or return
cond_holds(regs, condition) ==
    CASE condition = "Zero" -> read_flag(regs, "Z") = 1
      [] condition = "NotZero" -> read_flag(regs, "Z") = 0
      [] condition = "Carry" -> read_flag(regs, "C") = 1
      [] condition = "NotCarry" -> read_flag(regs, "C") = 0

\* Register16::from(R16MEM): both HL forms name HL
Register16FromMem(register) ==
    CASE register = "BC" -> "BC"
      [] register = "DE" -> "DE"
      [] register = "Hli" -> "HL"
      [] register = "Hld" -> "HL"

\* a register write that follows a call which may have panicked
ThenWrite16(c, register, value) ==
    IF c.fault # "none" THEN c
    ELSE SetRegs(c, write_16(c.registers, register, value))

\* stack_push_16
stack_push_16(c, value) ==
    LET sp == read_16(c.registers, "SP") IN
    IF arith_panic(sp - 2) # "none" THEN Panic(c, arith_panic(sp - 2))
    ELSE ThenWrite16(StoreWord(c, Wrap16(sp - 2), value), "SP",
                     Wrap16(sp - 2))

\* the second half of stack_pop_16: `sp + 2` after the read
pop_advance(c, sp, word) ==
    IF word.fault # "none" THEN [c |-> Panic(c, word.fault), val |-> 0]
    ELSE IF arith_panic(sp + 2) # "none"
    THEN [c |-> Panic(c, arith_panic(sp + 2)), val |-> 0]
    ELSE [c |-> SetRegs(c, write_16(c.registers, "SP", Wrap16(sp + 2))),
          val |-> word.val]

\* stack_pop_16: [c, val]
stack_pop_16(c) ==
    pop_advance(c, read_16(c.registers, "SP"),
                read_word(c.memory, read_16(c.registers, "SP")))

\* `cpu.registers.write_16(register, stack_pop_16(cpu, memory))`
PopInto(popped, register, cycles) ==
    Returned(ThenWrite16(popped.c, register, popped.val), cycles)

\* variant of alu_add: the flags are written but the sum is not stored in A
alu_add_flags_only(regs, value) ==
    LET a == read_8(regs, "A")
        r == overflowing_add_u8(a, value)
    IN WriteFlags(regs,
                  << <<"Z", Bool(r[1] = 0)>>, <<"N", 0>>,
                     <<"H", Bool(check_half_carry_add_u8(a, value))>>,
                     <<"C", Bool(r[2])>> >>)

\* ADD A, x (AddAR8 / AddAMemHl / AddAImm8): the registers afterwards
alu_add(regs, value) ==
    LET a == read_8(regs, "A")
        r == overflowing_add_u8(a, value)
    IN WriteFlags(write_8(regs, "A", r[1]),
                  << <<"Z", Bool(r[1] = 0)>>, <<"N", 0>>,
                     <<"H", Bool(check_half_carry_add_u8(a, value))>>,
                     <<"C", Bool(r[2])>> >>)

\* an add with carry whose H and C come from the second addition alone
alu_adc_last_step(regs, value) ==
    LET a == read_8(regs, "A")
        carry == read_flag(regs, "C")
        partial == overflowing_add_u8(a, carry)
        r == overflowing_add_u8(partial[1], value)
    IN WriteFlags(write_8(regs, "A", r[1]),
                  << <<"Z", Bool(r[1] = 0)>>, <<"N", 0>>,
                     <<"H", Bool(check_half_carry_add_u8(partial[1], value))>>,
                     <<"C", Bool(r[2])>> >>)

\* ADC A, x (AdcAR8 / AdcAMemHl / AdcAImm8)
alu_adc(regs, value) ==
    LET a == read_8(regs, "A")
        carry == read_flag(regs, "C")
        partial == overflowing_add_u8(a, carry)
        r == overflowing_add_u8(partial[1], value)
        half_overflow == check_half_carry_add_u8(a, carry)
                             \/ check_half_carry_add_u8(partial[1], value)
        overflow == partial[2] \/ r[2]
    IN WriteFlags(write_8(regs, "A", r[1]),
                  << <<"Z", Bool(r[1] = 0)>>, <<"N", 0>>,
                     <<"H", Bool(half_overflow)>>,
                     <<"C", Bool(overflow)>> >>)

\* variant of alu_sub: H is cleared instead of recording the half borrow
alu_sub_clears_h(regs, value) ==
    LET a == read_8(regs, "A")
        r == overflowing_sub_u8(a, value)
    IN WriteFlags(write_8(regs, "A", r[1]),
                  << <<"Z", Bool(r[1] = 0)>>, <<"N", 1>>,
                     <<"H", 0>>,
                     <<"C", Bool(r[2])>> >>)

\* SUB A, x (SubAR8 / SubAMemHl / SubAImm8)
alu_sub(regs, value) ==
    LET a == read_8(regs, "A")
        r == overflowing_sub_u8(a, value)
    IN WriteFlags(write_8(regs, "A", r[1]),
                  << <<"Z", Bool(r[1] = 0)>>, <<"N", 1>>,
                     <<"H", Bool(check_half_borrow_sub_u8(a, value))>>,
                     <<"C", Bool(r[2])>> >>)

\* SBC A, x (SbcAR8 / SbcAMemHl / SbcAImm8)
alu_sbc(regs, value) ==
    LET a == read_8(regs, "A")
        carry == read_flag(regs, "C")
        partial == overflowing_sub_u8(a, carry)
        r == overflowing_sub_u8(partial[1], value)
        half_borrow == check_half_borrow_sub_u8(a, carry)
                           \/ check_half_borrow_sub_u8(partial[1], value)
        overflow == partial[2] \/ r[2]
    IN WriteFlags(write_8(regs, "A", r[1]),
                  << <<"Z", Bool(r[1] = 0)>>, <<"N", 1>>,
                     <<"H", Bool(half_borrow)>>,
                     <<"C", Bool(overflow)>> >>)

\* AND A, x: AndAR8 / AndAMemHl write Z, N, H; AndAImm8 also writes C
alu_and(regs, value, writes_c) ==
    LET result == BitAnd(read_8(regs, "A"), value, 8) IN
    WriteFlags(write_8(regs, "A", result),
               << <<"Z", Bool(result = 0)>>, <<"N", 0>>, <<"H", 1>> >>
                   \o (IF writes_c THEN << <<"C", 0>> >> ELSE <<>>))

\* XOR A, x: XorAR8 / XorAMemHl write Z, N, H; XorAImm8 also writes C
alu_xor(regs, value, writes_c) ==
    LET result == BitXor(read_8(regs, "A"), value, 8) IN
    WriteFlags(write_8(regs, "A", result),
               << <<"Z", Bool(result = 0)>>, <<"N", 0>>, <<"H", 0>> >>
                   \o (IF writes_c THEN << <<"C", 0>> >> ELSE <<>>))

\* OR A, x (OrAR8 / OrAMemHl / OrAImm8)
alu_or(regs, value) ==
    LET result == BitOr(read_8(regs, "A"), value, 8) IN
    WriteFlags(write_8(regs, "A", result),
               << <<"Z", Bool(result = 0)>>, <<"N", 0>>, <<"H", 0>>,
                  <<"C", 0>> >>)

\* a compare that stores the difference in A, as SUB does
alu_cp_stores_result(regs, value) ==
    LET a == read_8(regs, "A")
        r == overflowing_sub_u8(a, value)
    IN WriteFlags(write_8(regs, "A", r[1]),
                  << <<"Z", Bool(r[1] = 0)>>, <<"N", 1>>,
                     <<"H", Bool(check_half_borrow_sub_u8(a, value))>>,
                     <<"C", Bool(r[2])>> >>)

\* CP A, x (CpAR8 / CpAMemHl / CpAImm8)
alu_cp(regs, value) ==
    LET a == read_8(regs, "A")
        r == overflowing_sub_u8(a, value)
    IN WriteFlags(regs,
                  << <<"Z", Bool(r[1] = 0)>>, <<"N", 1>>,
                     <<"H", Bool(check_half_borrow_sub_u8(a, value))>>,
                     <<"C", Bool(r[2])>> >>)

\* an increment that also writes the carry out of bit 7 into C
inc_flags_with_carry(regs, value) ==
    WriteFlags(regs, << <<"Z", Bool(Wrap8(value + 1) = 0)>>, <<"N", 0>>,
                        <<"H", Bool(check_half_carry_add_u8(value, 1))>>,
                        <<"C", Bool(value + 1 > \hFF)>> >>)

\* the flags written by INC (IncR8 / IncMemHl)
inc_flags(regs, value) ==
    WriteFlags(regs, << <<"Z", Bool(Wrap8(value + 1) = 0)>>, <<"N", 0>>,
                        <<"H", Bool(check_half_carry_add_u8(value, 1))>> >>)

\* the flags written by DEC (DecR8 / DecMemHl)
dec_flags(regs, value) ==
    WriteFlags(regs, << <<"Z", Bool(Wrap8(value - 1) = 0)>>, <<"N", 1>>,
                        <<"H", Bool(check_half_borrow_sub_u8(value, 1))>> >>)

(***************************************************************************)
(* gameboy/cpu/instructions.rs: Instruction::execute.  The machine after   *)
(* the instruction, with the cycle count in ret; an arm that is todo!()    *)
(* panics with nothing changed.                                            *)
(***************************************************************************)
TodoOps ==
    {"Stop", "Halt", "Reti", "Di", "Ei",
     "RlcMemHl", "RlcR8", "RrcMemHl", "RrcR8", "RlMemHl", "RlR8",
     "RrMemHl", "RrR8", "SlaMemHl", "SlaR8", "SraMemHl", "SraR8",
     "SwapMemHl", "SwapR8", "SrlMemHl", "SrlR8",
     "BitB3MemHl", "BitB3R8", "ResB3MemHl", "ResB3R8",
     "SetB3MemHl", "SetB3R8"}

\* the arms of block 3: returns, jumps, calls, stack and high-memory loads
execute_block3(c, ins) ==
    LET regs == c.registers
        op == ins.op
        pc == read_16(regs, "PC")
        a == read_8(regs, "A")
        sp == read_16(regs, "SP")
        ret_to(cycles) == PopInto(stack_pop_16(c), "PC", cycles)
        call_to(location, cycles) ==
            Returned(ThenWrite16(stack_push_16(c, pc), "PC", location),
                     cycles)
        store(address, cycles) == Returned(StoreByte(c, address, a), cycles)
        load(address, cycles) ==
            LET got == LoadByte(c, address) IN
            IF got.c.fault # "none" THEN got.c
            ELSE Ret(SetRegs(c, write_8(regs, "A", got.val)), cycles)
    IN
    CASE op = "RetCond" ->
           IF ~cond_holds(regs, ins.x) THEN Ret(c, 2) ELSE ret_to(5)
      [] op = "Ret" -> ret_to(4)
      [] op = "JpCondImm16" ->
           IF ~cond_holds(regs, ins.x) THEN Ret(c, 3)
           ELSE Ret(SetRegs(c, write_16(regs, "PC", ins.y)), 4)
      [] op = "JpImm16" -> Ret(SetRegs(c, write_16(regs, "PC", ins.x)), 4)
      [] op = "JpHl" ->
           Ret(SetRegs(c, write_16(regs, "PC", read_16(regs, "HL"))), 1)
      [] op = "CallCondImm16" ->
           IF ~cond_holds(regs, ins.x) THEN Ret(c, 3) ELSE call_to(ins.y, 6)
      [] op = "CallImm16" -> call_to(ins.x, 6)
      [] op = "RstTgt3" -> call_to(ins.x, 4)
      \* Register16::from(R16STK) is the register pair of the same name
      [] op = "PopR16Stk" ->
           PopInto(stack_pop_16(c), ins.x, 3)
      [] op = "PushR16Stk" ->
           Returned(stack_push_16(c, read_16(regs, ins.x)), 4)
      [] op = "LdhMemCA" -> store(\hFF00 + read_8(regs, "C"), 2)
      [] op = "LdhMemImm8A" -> store(\hFF00 + ins.x, 3)
      [] op = "LdMemImm16A" -> store(ins.x, 4)
      [] op = "LdAMemC" -> load(\hFF00 + read_8(regs, "C"), 2)
      [] op = "LdhAMemImm8" -> load(\hFF00 + ins.x, 3)
      [] op = "LdAMemImm16" -> load(ins.x, 4)
      [] op = "AddSpImm8" ->
           LET operand == sign_extend(ins.x)
               r == overflowing_add_signed_u16(sp, operand)
               written == WriteFlags(write_16(regs, "SP", r[1]),
                                     << <<"Z", 0>>, <<"N", 0>> >>)
           IN
           Ret(SetRegs(c,
                   IF operand > 0
                   THEN WriteFlags(written,
                            << <<"H", Bool(check_half_carry_add_u16_bit7(
                                               sp, operand))>>,
                               <<"C", Bool(r[2])>> >>)
                   ELSE WriteFlags(written, << <<"H", 0>>, <<"C", 0>> >>)),
               4)
      [] op = "LdHlSpImm8" ->
           LET operand == sign_extend(ins.x)
               r == overflowing_add_signed_u16(sp, operand)
               half_carry == operand > 0
                                 /\ check_half_carry_add_u16_bit7(sp, operand)
           IN
           Ret(SetRegs(c, WriteFlags(write_16(regs, "HL", r[1]),
                              << <<"Z", 0>>, <<"N", 0>>,
                                 <<"H", Bool(half_carry)>>,
                                 <<"C", Bool(r[2])>> >>)),
               3)
      [] op = "LdSpHl" ->
           Ret(SetRegs(c, write_16(regs, "SP", read_16(regs, "HL"))), 2)
      [] op \in TodoOps -> Panic(c, "todo")

\* the arms of block 2 and the immediate forms of block 3: 8-bit arithmetic
execute_alu(c, ins) ==
    LET regs == c.registers
        op == ins.op
        hl == read_16(regs, "HL")
        \* the operand from the register, from memory at HL, or immediate
        on_r8(F(_, _), cycles) ==
            Ret(SetRegs(c, F(regs, read_8(regs, ins.x))), cycles)
        on_mem(F(_, _), cycles) ==
            LET got == LoadByte(c, hl) IN
            IF got.c.fault # "none" THEN got.c
            ELSE Ret(SetRegs(c, F(regs, got.val)), cycles)
        on_imm(F(_, _), cycles) == Ret(SetRegs(c, F(regs, ins.x)), cycles)
        and_zn(r, v) == alu_and(r, v, FALSE)
        and_znc(r, v) == alu_and(r, v, TRUE)
        xor_zn(r, v) == alu_xor(r, v, FALSE)
        xor_znc(r, v) == alu_xor(r, v, TRUE)
    IN
    CASE op = "AddAMemHl" -> on_mem(alu_add, 2)
      [] op = "AddAR8" -> on_r8(alu_add, 1)
      [] op = "AddAImm8" -> on_imm(alu_add, 2)
      [] op = "AdcAMemHl" -> on_mem(alu_adc, 2)
      [] op = "AdcAR8" -> on_r8(alu_adc, 1)
      [] op = "AdcAImm8" -> on_imm(alu_adc, 2)
      [] op = "SubAMemHl" -> on_mem(alu_sub, 2)
      [] op = "SubAR8" -> on_r8(alu_sub, 1)
      [] op = "SubAImm8" -> on_imm(alu_sub, 2)
      [] op = "SbcAMemHl" -> on_mem(alu_sbc, 2)
      [] op = "SbcAR8" -> on_r8(alu_sbc, 1)
      [] op = "SbcAImm8" -> on_imm(alu_sbc, 2)
      [] op = "AndAMemHl" -> on_mem(and_zn, 2)
      [] op = "AndAR8" -> on_r8(and_zn, 1)
      [] op = "AndAImm8" -> on_imm(and_znc, 2)
      [] op = "XorAMemHl" -> on_mem(xor_zn, 2)
      [] op = "XorAR8" -> on_r8(xor_zn, 1)
      [] op = "XorAImm8" -> on_imm(xor_znc, 2)
      [] op = "OrAMemHl" -> on_mem(alu_or, 2)
      [] op = "OrAR8" -> on_r8(alu_or, 1)
      [] op = "OrAImm8" -> on_imm(alu_or, 2)
      [] op = "CpAMemHl" -> on_mem(alu_cp, 2)
      [] op = "CpAR8" -> on_r8(alu_cp, 1)
      [] op = "CpAImm8" -> on_imm(alu_cp, 2)
      [] OTHER -> execute_block3(c, ins)

\* variant of daa: the H flag is left as it was
daa_keeps_h(regs) ==
    LET a == read_8(regs, "A")
        n == read_flag(regs, "N")
        h == read_flag(regs, "H")
        carry == read_flag(regs, "C")
        low == h = 1 \/ BitAnd(a, \hF, 8) > 9
        high == carry = 1 \/ a > \h99
        adjustment == BitOr(IF low THEN \h6 ELSE 0,
                            IF high THEN \h60 ELSE 0, 8)
        result == IF n = 0 THEN Wrap8(a + adjustment)
                  ELSE Wrap8(a - adjustment)
        with_c == IF high THEN write_flag(regs, "C", 1) ELSE regs
    IN
    WriteFlags(write_8(with_c, "A", result), << <<"Z", Bool(result = 0)>> >>)

\* Instruction::Daa: the registers afterwards
daa(regs) ==
    LET a == read_8(regs, "A")
        n == read_flag(regs, "N")
        h == read_flag(regs, "H")
        carry == read_flag(regs, "C")
        low == h = 1 \/ BitAnd(a, \hF, 8) > 9
        high == carry = 1 \/ a > \h99
        adjustment == BitOr(IF low THEN \h6 ELSE 0,
                            IF high THEN \h60 ELSE 0, 8)
        result == IF n = 0 THEN Wrap8(a + adjustment)
                  ELSE Wrap8(a - adjustment)
        with_c == IF high THEN write_flag(regs, "C", 1) ELSE regs
    IN
    WriteFlags(write_8(with_c, "A", result),
               << <<"Z", Bool(result = 0)>>, <<"H", 0>> >>)

\* the arms of block 0 and block 1: loads, 16-bit arithmetic, INC/DEC,
\* rotates of A, DAA, CPL, SCF, CCF and relative jumps
execute(c, ins) ==
    LET regs == c.registers
        op == ins.op
        a == read_8(regs, "A")
        hl == read_16(regs, "HL")
        pc == read_16(regs, "PC")
        carry == read_flag(regs, "C")
        stored(address, value, cycles) ==
            Returned(StoreByte(c, address, value), cycles)
        rotated(result, new_carry) ==
            Ret(SetRegs(c, WriteFlags(write_8(regs, "A", result),
                               << <<"Z", 0>>, <<"N", 0>>, <<"H", 0>>,
                                  <<"C", new_carry>> >>)),
                1)
        jr == Ret(SetRegs(c, write_16(regs, "PC",
                                      Wrap16(pc + sign_extend(ins.y)))), 3)
    IN
    CASE op = "Nop" -> Ret(c, 1)
      [] op = "LdR16Imm16" -> Ret(SetRegs(c, write_16(regs, ins.x, ins.y)), 3)
      [] op = "LdR16MemA" ->
           stored(read_16(regs, Register16FromMem(ins.x)), a, 2)
      [] op = "LdAR16Mem" ->
           LET got == LoadByte(c, read_16(regs, Register16FromMem(ins.x))) IN
           IF got.c.fault # "none" THEN got.c
           ELSE Ret(SetRegs(c, write_8(regs, "A", got.val)), 2)
      [] op = "LdMemImm16SP" ->
           Returned(StoreWord(c, ins.x, read_16(regs, "SP")), 5)
      [] op = "IncR16" ->
           Ret(SetRegs(c, write_16(regs, ins.x,
                                   Wrap16(read_16(regs, ins.x) + 1))), 2)
      [] op = "DecR16" ->
           Ret(SetRegs(c, write_16(regs, ins.x,
                                   Wrap16(read_16(regs, ins.x) - 1))), 2)
      [] op = "AddHlR16" ->
           LET value == read_16(regs, ins.x)
               r == overflowing_add_u16(hl, value)
           IN
           Ret(SetRegs(c, WriteFlags(write_16(regs, "HL", r[1]),
                   << <<"N", 0>>,
                      <<"H", Bool(check_half_carry_add_u16_bit11(hl, value))>>,
                      <<"C", Bool(r[2])>> >>)),
               2)
      [] op = "IncMemHl" ->
           LET got == LoadByte(c, hl) IN
           IF got.c.fault # "none" THEN got.c
           ELSE Ret(SetRegs(StoreByte(c, hl, Wrap8(got.val + 1)),
                            inc_flags(regs, got.val)), 3)
      [] op = "IncR8" ->
           LET value == read_8(regs, ins.x) IN
           Ret(SetRegs(c, inc_flags(write_8(regs, ins.x, Wrap8(value + 1)),
                                    value)), 1)
      [] op = "DecMemHl" ->
           LET got == LoadByte(c, hl) IN
           IF got.c.fault # "none" THEN got.c
           ELSE Ret(SetRegs(StoreByte(c, hl, Wrap8(got.val - 1)),
                            dec_flags(regs, got.val)), 3)
      [] op = "DecR8" ->
           LET value == read_8(regs, ins.x) IN
           Ret(SetRegs(c, dec_flags(write_8(regs, ins.x, Wrap8(value - 1)),
                                    value)), 1)
      [] op = "LdMemHlImm8" -> stored(hl, ins.x, 3)
      [] op = "LdR8Imm8" -> Ret(SetRegs(c, write_8(regs, ins.x, ins.y)), 2)
      [] op = "Rlca" ->
           rotated(BitOr(Wrap8(a * 2), get_bit_u8(a, 7), 8), get_bit_u8(a, 7))
      [] op = "Rrca" ->
           rotated(BitOr(a \div 2, Wrap8(get_bit_u8(a, 0) * 128), 8),
                   get_bit_u8(a, 0))
      [] op = "Rla" ->
           rotated(BitOr(Wrap8(a * 2), carry, 8), get_bit_u8(a, 7))
      [] op = "Rra" ->
           rotated(BitOr(a \div 2, Wrap8(carry * 128), 8), get_bit_u8(a, 0))
      [] op = "Daa" -> Ret(SetRegs(c, daa(regs)), 1)
      [] op = "Cpl" ->
           Ret(SetRegs(c, WriteFlags(write_8(regs, "A", 255 - a),
                              << <<"N", 1>>, <<"H", 1>> >>)), 1)
      [] op = "Scf" ->
           Ret(SetRegs(c, WriteFlags(regs,
                              << <<"N", 0>>, <<"H", 0>>, <<"C", 1>> >>)), 1)
      [] op = "Ccf" ->
           Ret(SetRegs(c, WriteFlags(regs,
                              << <<"N", 0>>, <<"H", 0>>,
                                 <<"C", IF carry = 1 THEN 0 ELSE 1>> >>)), 1)
      [] op = "JrImm8" ->
           Ret(SetRegs(c, write_16(regs, "PC",
                                   Wrap16(pc + sign_extend(ins.x)))), 3)
      [] op = "JrCondImm8" ->
           IF cond_holds(regs, ins.x) THEN jr ELSE Ret(c, 2)
      [] op = "LdMemHlR8" -> stored(hl, read_8(regs, ins.x), 2)
      [] op = "LdR8MemHl" ->
           LET got == LoadByte(c, hl) IN
           IF got.c.fault # "none" THEN got.c
           ELSE Ret(SetRegs(c, write_8(regs, ins.x, got.val)), 2)
      [] op = "LdR8R8" ->
           Ret(SetRegs(c, write_8(regs, ins.x, read_8(regs, ins.y))), 1)
      [] OTHER -> execute_alu(c, ins)

\* variant of execute_fetched: EI is a no-op that takes one cycle
execute_fetched_ei_nop(fetched) ==
    IF fetched.c.fault # "none" THEN fetched.c
    ELSE IF fetched.ins.op = "Ei" THEN Ret(fetched.c, 1)
    ELSE execute(fetched.c, fetched.ins)

\* instruction.execute(self, memory), for the instruction just fetched
execute_fetched(fetched) ==
    IF fetched.c.fault # "none" THEN fetched.c
    ELSE execute(fetched.c, fetched.ins)

\* Cpu::tick: fetch one instruction and execute it
tick(c) == execute_fetched(fetch_instruction(c))

(***************************************************************************)
(* The memory bus driven by a host: Memory::new, then any calls of the     *)
(* four bus operations.  A panic ends the process.                         *)
(***************************************************************************)
\* both ends of every segment
BoundaryAddrs ==
    {SegTable[i].start : i \in 1 .. Len(SegTable)}
        \cup {SegTable[i].end : i \in 1 .. Len(SegTable)}

\* ... and addresses inside a segment, inside echo RAM and in the range
\* 0xFEA0..0xFEFF that no segment lists
MemAddrs == BoundaryAddrs \cup {\hC123, \hE001, \hFEA0, \hFEFF}

MemBytes == {\h00, \hAB}

MemWords == {\hABCD, \h00EF}

InitMem ==
    /\ registers = CpuNew
    /\ memory = MemoryNew
    /\ fault = "none"
    /\ overflow_checks \in BOOLEAN
    /\ last = [op |-> "new"]
    /\ steps = 0

ReadByte(adress) ==
    /\ fault = "none"
    /\ steps < MaxMemOps
    /\ fault' = bus_panic(adress)
    /\ last' = [op |-> "read_byte", adress |-> adress,
                ret |-> IF bus_panic(adress) = "none"
                        THEN read_byte(memory, adress) ELSE 0]
    /\ steps' = steps + 1
    /\ UNCHANGED <<registers, memory, overflow_checks>>

WriteByte(adress, value) ==
    /\ fault = "none"
    /\ steps < MaxMemOps
    /\ fault' = bus_panic(adress)
    /\ memory' = IF bus_panic(adress) = "none"
                 THEN write_byte(memory, adress, value) ELSE memory
    /\ last' = [op |-> "write_byte", adress |-> adress, value |-> value]
    /\ steps' = steps + 1
    /\ UNCHANGED <<registers, overflow_checks>>

ReadWord(adress) ==
    /\ fault = "none"
    /\ steps < MaxMemOps
    /\ fault' = read_word(memory, adress).fault
    /\ last' = [op |-> "read_word", adress |-> adress,
                ret |-> read_word(memory, adress).val]
    /\ steps' = steps + 1
    /\ UNCHANGED <<registers, memory, overflow_checks>>

WriteWord(adress, value) ==
    /\ fault = "none"
    /\ steps < MaxMemOps
    /\ fault' = write_word(memory, adress, value).fault
    /\ memory' = write_word(memory, adress, value).memory
    /\ last' = [op |-> "write_word", adress |-> adress, value |-> value]
    /\ steps' = steps + 1
    /\ UNCHANGED <<registers, overflow_checks>>

NextMem ==
    \/ \E a \in MemAddrs : ReadByte(a)
    \/ \E a \in MemAddrs, v \in MemBytes : WriteByte(a, v)
    \/ \E a \in MemAddrs : ReadWord(a)
    \/ \E a \in MemAddrs, v \in MemWords : WriteWord(a, v)

SpecMem == InitMem /\ [][NextMem]_vars


(***************************************************************************)
(* Properties of the memory bus                                            *)
(***************************************************************************)
\* the address lies in a listed segment other than echo RAM
Implemented(adress) ==
    \/ (\h0000 <= adress /\ adress <= \hDFFF)
    \/ (\hFE00 <= adress /\ adress <= \hFE9F)
    \/ (\hFF00 <= adress /\ adress <= \hFFFF)

\* addr and addr + 1 are both addresses of implemented segments
WordMapped(adress) ==
    /\ adress < \hFFFF
    /\ Implemented(adress)
    /\ Implemented(adress + 1)

\* C1 as stated: for every address addr and every value v,
\* write_word(addr, v) followed by read_word(addr) returns v.
C1_RoundTripEverywhere ==
    [][last'.op = "write_word" =>
          /\ fault' = "none"
          /\ read_word(memory', last'.adress)
                 = [val |-> last'.value, fault |-> "none"]]_vars

\* C1 amended: write_word(addr, v) completes for every addr such that addr
\* and addr + 1 (no wrap) both lie in a listed segment other than echo RAM,
\* and whenever write_word(addr, v) completes, read_word(addr) returns v.
C1_RoundTrip ==
    [][last'.op = "write_word" =>
          /\ WordMapped(last'.adress) => fault' = "none"
          /\ fault' = "none" =>
                 read_word(memory', last'.adress)
                     = [val |-> last'.value, fault |-> "none"]]_vars

\* a read_word that returns the word a preceding write_word stored
C1_Witness ==
    /\ fault = "none"
    /\ last.op = "read_word"
    /\ last.adress = WRAM_0_START
    /\ last.ret = \hABCD

\* the addresses backed by a stored (non-zero) byte
Backed(mem) ==
    UNION {{SegTable[i].start + off : off \in DOMAIN mem[SegTable[i].name]} :
              i \in 1 .. Len(SegTable)}

\* the addresses compared before and after a write: the ends of every
\* segment, the neighbours of the written address, and every address that
\* holds a non-zero byte before or after the write
Probe(m1, m2, adress) ==
    ((MemAddrs \cup Backed(m1) \cup Backed(m2)
        \cup {Wrap16(adress + 1), Wrap16(adress - 1)})
     \ {adress})

\* C2: every address is routed to exactly one segment: for every address a
\* outside echo RAM and every byte v, write_byte(a, v) followed by
\* read_byte(a) returns v, and read_byte(b) is unchanged for every other
\* address b.
C2_NoAliasing ==
    [][(last'.op = "write_byte"
           /\ ~(ECHO_RAM_START <= last'.adress
                   /\ last'.adress <= ECHO_RAM_END)) =>
          /\ fault' = "none"
          /\ read_byte(memory', last'.adress) = last'.value
          /\ \A b \in Probe(memory, memory', last'.adress) :
                 bus_panic(b) = "none" =>
                     read_byte(memory', b) = read_byte(memory, b)]_vars

\* C3: read_byte(a) and write_byte(a, v) end in a fatal bus fault exactly
\* when a lies in echo RAM or in no range of the segment table; a faulting
\* write_byte changes no memory byte.
C3_BusFault ==
    [][last'.op \in {"read_byte", "write_byte"} =>
          /\ (fault' # "none") <=>
                 \/ (\hE000 <= last'.adress /\ last'.adress <= \hFDFF)
                 \/ ~ \E i \in 1 .. Len(SegTable) :
                         /\ SegTable[i].start <= last'.adress
                         /\ last'.adress <= SegTable[i].end
          /\ fault' # "none" => (fault' = "bus" /\ memory' = memory)]_vars

\* a write into echo RAM that ended in the bus fault, after a stored byte
C3_Witness ==
    /\ fault = "bus"
    /\ last.op = "write_byte"
    /\ last.adress = \hE001
    /\ Backed(memory) # {}


(***************************************************************************)
(* The register file driven through its accessors: Cpu::new, then any      *)
(* calls of read_8 / write_8 / read_16 / write_16 / read_flag / write_flag *)
(***************************************************************************)
RegBytes == {\h00, \h5A, \hFF}

RegWords == {\h1234, \hFFFF}

FlagValues == {0, 1, 2, 255}

InitReg ==
    /\ registers = CpuNew
    /\ memory = MemoryNew
    /\ fault = "none"
    /\ overflow_checks \in BOOLEAN
    /\ last = [op |-> "new"]
    /\ steps = 0

Read8(register) ==
    /\ fault = "none"
    /\ steps < MaxRegOps
    /\ last' = [op |-> "read_8", register |-> register,
                ret |-> read_8(registers, register)]
    /\ steps' = steps + 1
    /\ UNCHANGED <<registers, memory, fault, overflow_checks>>

Write8(register, value) ==
    /\ fault = "none"
    /\ steps < MaxRegOps
    /\ registers' = write_8(registers, register, value)
    /\ last' = [op |-> "write_8", register |-> register, value |-> value]
    /\ steps' = steps + 1
    /\ UNCHANGED <<memory, fault, overflow_checks>>

Read16(register) ==
    /\ fault = "none"
    /\ steps < MaxRegOps
    /\ last' = [op |-> "read_16", register |-> register,
                ret |-> read_16(registers, register)]
    /\ steps' = steps + 1
    /\ UNCHANGED <<registers, memory, fault, overflow_checks>>

Write16(register, value) ==
    /\ fault = "none"
    /\ steps < MaxRegOps
    /\ registers' = write_16(registers, register, value)
    /\ last' = [op |-> "write_16", register |-> register, value |-> value]
    /\ steps' = steps + 1
    /\ UNCHANGED <<memory, fault, overflow_checks>>

ReadFlag(flag) ==
    /\ fault = "none"
    /\ steps < MaxRegOps
    /\ last' = [op |-> "read_flag", flag |-> flag,
                ret |-> read_flag(registers, flag)]
    /\ steps' = steps + 1
    /\ UNCHANGED <<registers, memory, fault, overflow_checks>>

WriteFlag(flag, value) ==
    /\ fault = "none"
    /\ steps < MaxRegOps
    /\ IF set_bit_u16_asserts(flag_index(flag), value)
       THEN /\ registers' = write_flag(registers, flag, value)
            /\ fault' = "none"
       ELSE /\ registers' = registers
            /\ fault' = "assert"
    /\ last' = [op |-> "write_flag", flag |-> flag, value |-> value]
    /\ steps' = steps + 1
    /\ UNCHANGED <<memory, overflow_checks>>

NextReg ==
    \/ \E r \in Register8 : Read8(r)
    \/ \E r \in Register8, v \in RegBytes : Write8(r, v)
    \/ \E r \in Register16 : Read16(r)
    \/ \E r \in Register16, v \in RegWords : Write16(r, v)
    \/ \E f \in Flag : ReadFlag(f)
    \/ \E f \in Flag, v \in FlagValues : WriteFlag(f, v)

SpecReg == InitReg /\ [][NextReg]_vars

(***************************************************************************)
(* Properties of the register file                                         *)
(***************************************************************************)
\* the field of Registers that holds an 8-bit register
PairOf(register) ==
    CASE register \in {"A", "F"} -> "af"
      [] register \in {"B", "C"} -> "bc"
      [] register \in {"D", "E"} -> "de"
      [] register \in {"H", "L"} -> "hl"

IsHighHalf(register) == register \in {"A", "B", "D", "H"}

\* C4: for every register pair AF, BC, DE, HL and every byte v, write_8 to
\* the high half leaves the low half unchanged, write_8 to the low half
\* leaves the high half unchanged, and no write_8 changes any other
\* register pair, SP or PC.
C4_Write8Frame ==
    [][last'.op = "write_8" =>
          LET p == PairOf(last'.register) IN
          /\ registers'[p] =
                 IF IsHighHalf(last'.register)
                 THEN last'.value * 256 + (registers[p] % 256)
                 ELSE (registers[p] \div 256) * 256 + last'.value
          /\ \A q \in {"af", "bc", "de", "hl", "sp", "pc"} \ {p} :
                 registers'[q] = registers[q]]_vars

\* a low half written while the high half of the same pair is non-zero
C4_Witness ==
    /\ last.op = "write_8"
    /\ last.register = "C"
    /\ last.value = \h5A
    /\ registers.bc = \hFF5A

\* C5: write_flag(f, v) accepts only v in {0, 1}; afterwards
\* read_flag(f) = v, the other three flags keep their previous values, the
\* nibble of F that holds no flag is unchanged and register A is unchanged.
C5_WriteFlag ==
    [][last'.op = "write_flag" =>
          IF last'.value \in {0, 1}
          THEN /\ fault' = "none"
               /\ read_flag(registers', last'.flag) = last'.value
               /\ \A g \in Flag \ {last'.flag} :
                      read_flag(registers', g) = read_flag(registers, g)
               /\ registers'.af \div 16 = registers.af \div 16
               /\ \A q \in {"bc", "de", "hl", "sp", "pc"} :
                      registers'[q] = registers[q]
          ELSE /\ fault' # "none"
               /\ registers' = registers]_vars

\* a flag cleared while the other flags, the rest of F and A are all ones
C5_Witness ==
    /\ fault = "none"
    /\ last.op = "write_flag"
    /\ last.flag = "N"
    /\ last.value = 0
    /\ registers.af = \hFFFD

\* C6: in every reachable state of the register file the flags Z, N, H, C
\* are held in bits 7, 6, 5, 4 of F respectively and bits 3..0 of F read
\* as 0.
C6_FlagLayout ==
    LET F == registers.af % 256 IN
    /\ read_flag(registers, "Z") = (F \div 128) % 2
    /\ read_flag(registers, "N") = (F \div 64) % 2
    /\ read_flag(registers, "H") = (F \div 32) % 2
    /\ read_flag(registers, "C") = (F \div 16) % 2
    /\ F % 16 = 0

(***************************************************************************)
(* Fetch and decode driven by a host, as test_fetch_instruction does: the  *)
(* host stores an encoding at PC with write_byte and calls                 *)
(* fetch_instruction.                                                      *)
(***************************************************************************)
MaxFetches == 1

FetchPcs ==
    {\h0000, \h0100, \hC000, \hDFFD, \hDFFE, \hDFFF, \hFF80,
     \hFFFD, \hFFFE, \hFFFF}

SecondBytes == {\h00, \h34, \hFF}

ThirdBytes == {\h00, \h12}

\* the host stores bytes at base, base + 1, ...; a store the bus would
\* reject is not made
RECURSIVE LoadBytes(_, _, _)
LoadBytes(mem, base, bytes) ==
    IF bytes = <<>> THEN mem
    ELSE LoadBytes(IF Implemented(base)
                   THEN write_byte(mem, base, bytes[1]) ELSE mem,
                   Wrap16(base + 1), Tail(bytes))

InitFetch ==
    /\ \E p \in FetchPcs, b0 \in U8, b2 \in ThirdBytes :
         \E b1 \in IF b0 = \hCB THEN U8 ELSE SecondBytes :
           /\ registers = RegistersNew(0, 0, 0, 0, 0, p)
           /\ memory = LoadBytes(MemoryNew, p, <<b0, b1, b2>>)
    /\ fault = "none"
    /\ overflow_checks \in BOOLEAN
    /\ last = [op |-> "new"]
    /\ steps = 0

\* the state after a call of fetch_instruction that left [ins, c]
FetchReturns(fetched) ==
    /\ registers' = fetched.c.registers
    /\ fault' = fetched.c.fault
    /\ last' = [op |-> "fetch_instruction", before |-> registers,
                ins |-> fetched.ins]

FetchInstruction ==
    /\ fault = "none"
    /\ steps < MaxFetches
    /\ FetchReturns(fetch_instruction(Machine(registers, memory)))
    /\ steps' = steps + 1
    /\ UNCHANGED <<memory, overflow_checks>>

NextFetch == FetchInstruction

SpecFetch == InitFetch /\ [][NextFetch]_vars

\* the fetch that has just returned an instruction, and what it read
Fetched == last.op = "fetch_instruction" /\ fault = "none"

ByteAfter(n) == read_byte(memory, Wrap16(last.before.pc + n))

Opcode == ByteAfter(0)

Imm16Opcodes ==
    {\h01, \h11, \h21, \h31, \h08, \hC3, \hC2, \hCA, \hD2, \hDA,
     \hCD, \hC4, \hCC, \hD4, \hDC, \hEA, \hFA}

Imm8Opcodes ==
    {\h06, \h0E, \h16, \h1E, \h26, \h2E, \h3E, \h36, \h18,
     \h20, \h28, \h30, \h38,
     \hC6, \hCE, \hD6, \hDE, \hE6, \hEE, \hF6, \hFE,
     \hE0, \hF0, \hE8, \hF8}

EncodedLength(opcode) ==
    IF opcode \in Imm16Opcodes THEN 3
    ELSE IF opcode \in Imm8Opcodes \cup {\hCB} THEN 2
    ELSE 1

\* the immediate operand an instruction carries: its last field
Immediate(ins) == IF "y" \in DOMAIN ins THEN ins.y ELSE ins.x

\* C8: whenever fetch_instruction returns an instruction, PC has advanced
\* (mod 65536) by the encoded length of the opcode: 3 for the 16-bit
\* immediate forms, 2 for the 8-bit immediate forms and the CB prefix, 1
\* otherwise; and the immediate the instruction carries is the byte, or the
\* little-endian word, stored after the opcode.
C8_FetchLength ==
    Fetched =>
        /\ registers.pc = Wrap16(last.before.pc + EncodedLength(Opcode))
        /\ Opcode \in Imm8Opcodes => Immediate(last.ins) = ByteAfter(1)
        /\ Opcode \in Imm16Opcodes =>
               Immediate(last.ins) = ByteAfter(1) + 256 * ByteAfter(2)

\* a fetch of LD BC,imm16 at 0xC000, with a word whose two bytes differ, has
\* returned
C8_Witness ==
    /\ Fetched
    /\ Opcode = \h01
    /\ last.ins = [op |-> "LdR16Imm16", x |-> "BC", y |-> \h1234]
    /\ registers.pc = \hC003

\* the opcodes that carry a 3-bit register field, with the field's value
OperandFields(opcode) ==
    CASE op_xx(opcode) = 0 /\ op_bbb(opcode) \in {4, 5, 6} ->
           {op_aaa(opcode)}
      [] op_xx(opcode) = 1 -> {op_aaa(opcode), op_bbb(opcode)}
      [] op_xx(opcode) = 2 -> {op_bbb(opcode)}
      [] OTHER -> {}

MemHlOps ==
    {"IncMemHl", "DecMemHl", "LdMemHlImm8", "LdMemHlR8", "LdR8MemHl",
     "AddAMemHl", "AdcAMemHl", "SubAMemHl", "SbcAMemHl", "AndAMemHl",
     "XorAMemHl", "OrAMemHl", "CpAMemHl",
     "RlcMemHl", "RrcMemHl", "RlMemHl", "RrMemHl", "SlaMemHl", "SraMemHl",
     "SwapMemHl", "SrlMemHl", "BitB3MemHl", "ResB3MemHl", "SetB3MemHl"}

\* C9: the decoder takes the most specific pattern first: no fetch ends in
\* the panic of a selector conversion (R8::from is never given 6), opcode
\* 0x76 decodes to Halt, and every other opcode, plain or CB-prefixed, whose
\* register field is 6 decodes to the memory-at-HL variant.
C9_MostSpecificFirst ==
    /\ fault # "invalid_selector"
    /\ Fetched =>
        /\ Opcode = \h76 => last.ins = [op |-> "Halt"]
        /\ (Opcode # \h76 /\ 6 \in OperandFields(Opcode)) =>
               last.ins.op \in MemHlOps
        /\ (Opcode = \hCB /\ op_bbb(ByteAfter(1)) = 6) =>
               last.ins.op \in MemHlOps

\* opcode 0x76 has been fetched and decoded
C9_Witness ==
    /\ Fetched
    /\ Opcode = \h76
    /\ last.ins.op = "Halt"
    /\ registers.pc = Wrap16(last.before.pc + 1)

(***************************************************************************)
(* The CPU run from power-on: Memory::new and Cpu::new, a program stored   *)
(* at address 0 by the host, then calls of tick.                           *)
(***************************************************************************)
ProgramBytes ==
    << {\h3E, \hC5, \h31, \hC3, \h00},
       {\h05, \hC1, \h01, \hFE, \hFF},
       {\h06, \h00, \hFF, \hC5},
       {\h03, \hC5, \hC1, \h00},
       {\h80, \h00} >>

Programs ==
    {<<b0, b1, b2, b3, b4>> :
        b0 \in ProgramBytes[1], b1 \in ProgramBytes[2],
        b2 \in ProgramBytes[3], b3 \in ProgramBytes[4],
        b4 \in ProgramBytes[5]}

InitCpu ==
    /\ registers = CpuNew
    /\ \E program \in Programs :
         /\ memory = LoadBytes(MemoryNew, 0, program)
         /\ last = [op |-> "new", program |-> program, cycles |-> <<>>,
                    start |-> CpuNew]
    /\ fault = "none"
    /\ overflow_checks \in BOOLEAN
    /\ steps = 0

\* one call of Cpu::tick.  The record of the call keeps the registers and
\* the memory before it, the instruction fetched, the cycle counts the
\* calls so far have returned, and the registers the run started with.
TickReturns(ins, after) ==
    /\ registers' = after.registers
    /\ memory' = after.memory
    /\ fault' = after.fault
    /\ last' = [op |-> "tick", program |-> last.program,
                start |-> last.start,
                before |-> registers, mem |-> memory, ins |-> ins,
                cycles |-> IF after.fault = "none"
                           THEN Append(last.cycles, after.ret)
                           ELSE last.cycles]

Tick ==
    /\ fault = "none"
    /\ steps < MaxTicks
    /\ TickReturns(fetch_instruction(Machine(registers, memory)).ins,
                   tick(Machine(registers, memory)))
    /\ steps' = steps + 1
    /\ UNCHANGED overflow_checks

NextCpu == Tick

SpecCpu == InitCpu /\ [][NextCpu]_vars

\* C7: SP and PC wrap modulo 65536 and the step does not fault: a tick that
\* fetches a one-byte instruction at PC = 0xFFFF leaves PC = 0x0000, a PUSH
\* with SP = 0x0000 or 0x0001 leaves SP = 0xFFFE or 0xFFFF, and a POP with
\* SP = 0xFFFE leaves SP = 0x0000.
C7_CountersWrap ==
    last.op = "tick" =>
        /\ (last.before.pc = \hFFFF /\ read_byte(memory, \hFFFF) = \h00) =>
               (fault = "none" /\ registers.pc = \h0000)
        /\ (last.ins.op = "PushR16Stk" /\ last.before.sp \in {\h0000, \h0001})
               => (fault = "none"
                      /\ registers.sp = Wrap16(last.before.sp - 2))
        /\ (last.ins.op = "PopR16Stk" /\ last.before.sp = \hFFFE) =>
               (fault = "none" /\ registers.sp = \h0000)

\* C10: from power-on with 0x3E,0x05,0x06,0x03,0x80 at addresses 0..4, the
\* first three ticks do not fault and return 2, 2 and 1 cycles, and after
\* the third A = 8, B = 3, the flags Z, N, H, C read 0 and PC = 5.
C10_AddScenario ==
    (last.program = <<\h3E, \h05, \h06, \h03, \h80>> /\ steps <= 3) =>
        /\ fault = "none"
        /\ last.cycles = SubSeq(<<2, 2, 1>>, 1, steps)
        /\ steps = 3 =>
               /\ read_8(registers, "A") = 8
               /\ read_8(registers, "B") = 3
               /\ \A f \in Flag : read_flag(registers, f) = 0
               /\ registers.pc = 5

\* the third tick of that program has returned
C10_Witness ==
    /\ last.program = <<\h3E, \h05, \h06, \h03, \h80>>
    /\ steps = 3
    /\ last.op = "tick"
    /\ last.ins = [op |-> "AddAR8", x |-> "B"]
    /\ registers.af = \h0800

(***************************************************************************)
(* Stack instructions, as test_push_r16stk / test_pop_r16stk set them up:  *)
(* the host writes BC and SP, stores a word at SP and a program at         *)
(* address 0, then calls tick.                                             *)
(***************************************************************************)
StackWords == {\h0000, \h1234, \hFFFF}

StackPointers ==
    {\h0000, \h0001, \h0002, \hC002, \hD000, \hDFFE, \hE000, \hE001,
     \hFF80, \hFFFE, \hFFFF}

StackContents == {<<\h00, \h00>>, <<\hCD, \hAB>>}

StackPrograms == {<<\hC5, \hC1>>, <<\hC1, \hC5>>, <<\hC5, \hC5>>}

InitStack ==
    /\ \E bc \in StackWords, sp \in StackPointers,
          content \in StackContents, program \in StackPrograms :
         /\ registers = RegistersNew(0, bc, 0, 0, sp, 0)
         /\ memory = LoadBytes(LoadBytes(MemoryNew, sp, content), 0, program)
         /\ last = [op |-> "new", program |-> program, cycles |-> <<>>,
                    start |-> registers]
    /\ fault = "none"
    /\ overflow_checks \in BOOLEAN
    /\ steps = 0

NextStack == Tick

SpecStack == InitStack /\ [][NextStack]_vars

\* the memory with the two bytes at adress and adress + 1 blanked
Blank2(mem, adress) ==
    write_byte(write_byte(mem, adress, 0), Wrap16(adress + 1), 0)

\* both bytes of the word at adress are backed by the bus
WordBacked(adress) == Implemented(adress) /\ Implemented(Wrap16(adress + 1))

\* the last tick fetched the one-operand instruction op with operand x
Ticked1(op, x) == last.op = "tick" /\ last.ins.op = op /\ last.ins.x = x

\* C11: for every BC and every SP whose stack bytes SP-2 and SP-1 are
\* mapped, PUSH BC leaves SP = SP-2 (mod 65536) and changes only those two
\* bytes of memory; POP BC from such a pair of bytes leaves SP two higher and
\* memory unchanged; and PUSH BC followed by POP BC ends with BC and SP as
\* they started.  None of these steps faults.
C11_StackSymmetry ==
    last.op = "tick" =>
        /\ (Ticked1("PushR16Stk", "BC")
              /\ WordBacked(Wrap16(last.before.sp - 2))) =>
               /\ fault = "none"
               /\ registers.sp = Wrap16(last.before.sp - 2)
               /\ Blank2(memory, Wrap16(last.before.sp - 2))
                    = Blank2(last.mem, Wrap16(last.before.sp - 2))
        /\ (Ticked1("PopR16Stk", "BC")
              /\ WordBacked(last.before.sp)) =>
               /\ fault = "none"
               /\ registers.sp = Wrap16(last.before.sp + 2)
               /\ memory = last.mem
        /\ (steps = 2 /\ last.program = <<\hC5, \hC1>>
              /\ Ticked1("PopR16Stk", "BC")
              /\ WordBacked(Wrap16(last.start.sp - 2))) =>
               /\ fault = "none"
               /\ registers.bc = last.start.bc
               /\ registers.sp = last.start.sp

(***************************************************************************)
(* Conditional jumps, calls and returns, as test_jr_cond_imm8,             *)
(* test_jp_cond_imm16_taken, test_call_cond_imm16_taken and                *)
(* test_ret_cond_taken set them up: flags, SP and PC written by the host,  *)
(* a return address stored at SP, the instruction stored at PC.            *)
(***************************************************************************)
BranchOpcodes ==
    {\h20, \h28, \h30, \h38,  \hC2, \hCA, \hD2, \hDA,
     \hC4, \hCC, \hD4, \hDC,  \hC0, \hC8, \hD0, \hD8}

BranchOperands == {<<\h05, \hC1>>, <<\hFE, \h00>>, <<\h00, \hD0>>}

BranchPcs == {\h0000, \hC000}

BranchPointers == {\h0000, \hD000, \hFFFE}

ReturnAddress == <<\h00, \hC1>>

\* a register file with the four flags given and everything else as passed
WithFlags(regs, z, n, h, cy) ==
    WriteFlags(regs, <<<<"Z", z>>, <<"N", n>>, <<"H", h>>, <<"C", cy>>>>)

InitBranch ==
    /\ \E z \in 0..1, n \in 0..1, h \in 0..1, cy \in 0..1,
          sp \in BranchPointers, pc \in BranchPcs,
          opcode \in BranchOpcodes, operand \in BranchOperands :
         /\ registers = WithFlags(RegistersNew(0, 0, 0, 0, sp, pc),
                                  z, n, h, cy)
         /\ memory = LoadBytes(LoadBytes(MemoryNew, sp, ReturnAddress),
                               pc, <<opcode>> \o operand)
         /\ last = [op |-> "new", program |-> <<opcode>> \o operand,
                    cycles |-> <<>>,
                    start |-> registers]
    /\ fault = "none"
    /\ overflow_checks \in BOOLEAN
    /\ steps = 0

NextBranch == Tick

SpecBranch == InitBranch /\ [][NextBranch]_vars

ConditionalOps == {"JrCondImm8", "JpCondImm16", "CallCondImm16", "RetCond"}

\* the encoded length of a conditional instruction
ConditionalLength(op) ==
    CASE op = "JrCondImm8" -> 2
      [] op = "JpCondImm16" -> 3
      [] op = "CallCondImm16" -> 3
      [] op = "RetCond" -> 1

UntakenCycles(op) ==
    CASE op = "JrCondImm8" -> 2
      [] op = "JpCondImm16" -> 3
      [] op = "CallCondImm16" -> 3
      [] op = "RetCond" -> 2

TakenCycles(op) ==
    CASE op = "JrCondImm8" -> 3
      [] op = "JpCondImm16" -> 4
      [] op = "CallCondImm16" -> 6
      [] op = "RetCond" -> 5

\* the condition as the flags before the tick decide it
FlagsSay(regs, condition) ==
    \/ condition = "Zero" /\ read_flag(regs, "Z") = 1
    \/ condition = "NotZero" /\ read_flag(regs, "Z") = 0
    \/ condition = "Carry" /\ read_flag(regs, "C") = 1
    \/ condition = "NotCarry" /\ read_flag(regs, "C") = 0

\* the cycle count the last tick returned
LastCycles == last.cycles[Len(last.cycles)]

\* the last tick fetched a conditional jump, call or return
TickedConditional == last.op = "tick" /\ last.ins.op \in ConditionalOps

\* C12: a conditional JR / JP / CALL / RET whose condition does not hold
\* returns 2 / 3 / 3 / 2 cycles and leaves PC just behind the instruction
\* and SP and memory untouched; one that completes returned 3 / 4 / 6 / 5
\* cycles exactly when the flags before it satisfied Z=1 (Zero), Z=0
\* (NotZero), C=1 (Carry), C=0 (NotCarry), and the untaken count otherwise.
C12_ConditionalCycles ==
    TickedConditional =>
        /\ ~FlagsSay(last.before, last.ins.x) =>
               /\ fault = "none"
               /\ LastCycles = UntakenCycles(last.ins.op)
               /\ registers.pc
                    = Wrap16(last.before.pc + ConditionalLength(last.ins.op))
               /\ registers.sp = last.before.sp
               /\ memory = last.mem
        /\ fault = "none" =>
               /\ LastCycles \in {UntakenCycles(last.ins.op),
                                  TakenCycles(last.ins.op)}
               /\ (LastCycles = TakenCycles(last.ins.op))
                    <=> FlagsSay(last.before, last.ins.x)

\* a conditional call was taken: six cycles, the return address pushed
C12_Witness ==
    /\ TickedConditional
    /\ last.ins.op = "CallCondImm16"
    /\ last.ins.x = "NotCarry"
    /\ fault = "none"
    /\ LastCycles = 6
    /\ registers.pc = last.ins.y
    /\ registers.sp = Wrap16(last.before.sp - 2)

(***************************************************************************)
(* 8-bit arithmetic, as test_add_a_r8 .. test_cp_a_imm8_carry,             *)
(* test_inc_r8 .. test_dec_memhl_zero and test_rlca .. test_rra set them   *)
(* up: the host writes A, the flags, the operand register B, HL and the    *)
(* byte at HL, stores the opcode and an operand byte at address 0, and     *)
(* calls tick.                                                             *)
(***************************************************************************)
AluOpcodes ==
    {\h80, \h86, \hC6, \h87,  \h88, \h8E, \hCE, \h8F,
     \h90, \h96, \hD6, \h97,  \h98, \h9E, \hDE, \h9F,
     \hA0, \hA6, \hE6, \hA7,  \hA8, \hAE, \hEE, \hAF,
     \hB0, \hB6, \hF6, \hB7,  \hB8, \hBE, \hFE, \hBF,
     \h04, \h3C, \h34, \h05, \h3D, \h35,
     \h07, \h0F, \h17, \h1F}

AluBytes == {\h00, \h01, \h0F, \h10, \h1F, \h80, \hF0, \hFF}

\* the number of instructions run from each setup
MaxAluTicks == 2

AluHl == \hC000

\* the registers the host has written: A = a, the flags, B = b, HL
AluRegisters(a, b, z, n, h, cy) ==
    WithFlags(RegistersNew(combine(a, 0), combine(b, \h55), \hAA33, AluHl,
                           \hFFFE, 0),
              z, n, h, cy)

InitAlu ==
    /\ \E z \in 0..1, n \in 0..1, h \in 0..1, cy \in 0..1,
          a \in AluBytes, b \in AluBytes, opcode \in AluOpcodes :
         /\ registers = AluRegisters(a, b, z, n, h, cy)
         /\ memory = LoadBytes(LoadBytes(MemoryNew, AluHl, <<b>>),
                               0, <<opcode, b>>)
         /\ last = [op |-> "new", program |-> <<opcode, b>>, cycles |-> <<>>,
                    start |-> registers]
    /\ fault = "none"
    /\ overflow_checks \in BOOLEAN
    /\ steps = 0

TickAlu == steps < MaxAluTicks /\ Tick

NextAlu == TickAlu

SpecAlu == InitAlu /\ [][NextAlu]_vars

\* the last tick completed one of the instructions ops
TickedAlu(ops) == last.op = "tick" /\ fault = "none" /\ last.ins.op \in ops

R8Forms ==
    {"AddAR8", "AdcAR8", "SubAR8", "SbcAR8", "AndAR8", "XorAR8", "OrAR8",
     "CpAR8", "IncR8", "DecR8"}

MemHlForms ==
    {"AddAMemHl", "AdcAMemHl", "SubAMemHl", "SbcAMemHl", "AndAMemHl",
     "XorAMemHl", "OrAMemHl", "CpAMemHl", "IncMemHl", "DecMemHl"}

\* the operand of the last instruction as it was before the tick: the
\* register, the byte at HL, or the immediate byte
Operand8 ==
    IF last.ins.op \in R8Forms THEN read_8(last.before, last.ins.x)
    ELSE IF last.ins.op \in MemHlForms
         THEN read_byte(last.mem, last.before.hl)
         ELSE last.ins.x

OldA == read_8(last.before, "A")
NewA == read_8(registers, "A")
OldFlag(f) == read_flag(last.before, f)
NewFlag(f) == read_flag(registers, f)

\* the four flags now are z, n, h, cy
FlagsAre(z, n, h, cy) ==
    /\ NewFlag("Z") = Bool(z)
    /\ NewFlag("N") = Bool(n)
    /\ NewFlag("H") = Bool(h)
    /\ NewFlag("C") = Bool(cy)

AddOps == {"AddAR8", "AddAMemHl", "AddAImm8"}
SubOps == {"SubAR8", "SubAMemHl", "SubAImm8"}
CpOps == {"CpAR8", "CpAMemHl", "CpAImm8"}

\* C13: with a the old A and b the operand (register, byte at HL or
\* immediate), ADD leaves A = (a+b) mod 256 and flags Z = (A = 0), N = 0,
\* H = ((a&15)+(b&15) > 15), C = (a+b > 255); SUB leaves A = (a-b) mod 256
\* and Z = (A = 0), N = 1, H = ((a&15) < (b&15)), C = (a < b); CP sets the
\* flags SUB sets and leaves A as it was.
C13_AddSubCp ==
    /\ TickedAlu(AddOps) =>
           /\ NewA = (OldA + Operand8) % 256
           /\ FlagsAre(NewA = 0, FALSE,
                       (OldA % 16) + (Operand8 % 16) > 15,
                       OldA + Operand8 > 255)
    /\ TickedAlu(SubOps) =>
           /\ NewA = (OldA - Operand8) % 256
           /\ FlagsAre(NewA = 0, TRUE,
                       (OldA % 16) < (Operand8 % 16),
                       OldA < Operand8)
    /\ TickedAlu(CpOps) =>
           /\ NewA = OldA
           /\ FlagsAre((OldA - Operand8) % 256 = 0, TRUE,
                       (OldA % 16) < (Operand8 % 16),
                       OldA < Operand8)

\* a compare against the byte at HL that borrows from bit 4 and from bit 8
C13_Witness ==
    /\ TickedAlu({"CpAMemHl"})
    /\ OldA = \h10
    /\ Operand8 = \h1F
    /\ NewA = \h10
    /\ NewFlag("H") = 1
    /\ NewFlag("C") = 1
    /\ NewFlag("N") = 1
    /\ OldFlag("N") = 0

AdcOps == {"AdcAR8", "AdcAMemHl", "AdcAImm8"}
SbcOps == {"SbcAR8", "SbcAMemHl", "SbcAImm8"}

\* C14: with a the old A, b the operand and c the carry flag before, ADC
\* leaves A = (a+b+c) mod 256, Z = (A = 0), N = 0,
\* H = ((a&15)+(b&15)+c > 15), C = (a+b+c > 255), and SBC leaves
\* A = (a-b-c) mod 256, Z = (A = 0), N = 1, H = ((a&15) < (b&15)+c),
\* C = (a < b+c): the two-step computation of the code agrees with the
\* single-step one on every input.
C14_AdcSbc ==
    /\ TickedAlu(AdcOps) =>
           /\ NewA = (OldA + Operand8 + OldFlag("C")) % 256
           /\ FlagsAre(NewA = 0, FALSE,
                       (OldA % 16) + (Operand8 % 16) + OldFlag("C") > 15,
                       OldA + Operand8 + OldFlag("C") > 255)
    /\ TickedAlu(SbcOps) =>
           /\ NewA = (OldA - Operand8 - OldFlag("C")) % 256
           /\ FlagsAre(NewA = 0, TRUE,
                       (OldA % 16) < (Operand8 % 16) + OldFlag("C"),
                       OldA < Operand8 + OldFlag("C"))

\* ADC with a = 0xFF, b = 0 and carry-in 1: the carry-in alone overflows
C14_Witness ==
    /\ TickedAlu(AdcOps)
    /\ OldA = \hFF
    /\ Operand8 = 0
    /\ OldFlag("C") = 1
    /\ NewA = 0
    /\ NewFlag("Z") = 1
    /\ NewFlag("H") = 1
    /\ NewFlag("C") = 1

IncOps == {"IncR8", "IncMemHl"}
DecOps == {"DecR8", "DecMemHl"}

\* the register or the byte at HL the last INC / DEC worked on, afterwards
Result8 ==
    IF last.ins.op \in R8Forms THEN read_8(registers, last.ins.x)
    ELSE read_byte(memory, last.before.hl)

\* C15: INC of a register or of the byte at HL, holding v before, leaves
\* (v+1) mod 256 there with Z = (result = 0), N = 0, H = ((v&15) = 15);
\* DEC leaves (v-1) mod 256 with Z = (result = 0), N = 1, H = ((v&15) = 0);
\* both leave the C flag as it was.
C15_IncDec8 ==
    /\ TickedAlu(IncOps) =>
           /\ Result8 = (Operand8 + 1) % 256
           /\ FlagsAre(Result8 = 0, FALSE, Operand8 % 16 = 15,
                       OldFlag("C") = 1)
    /\ TickedAlu(DecOps) =>
           /\ Result8 = (Operand8 - 1) % 256
           /\ FlagsAre(Result8 = 0, TRUE, Operand8 % 16 = 0,
                       OldFlag("C") = 1)

\* INC (HL) takes 0xFF to 0 with Z and H set and the clear carry kept
C15_Witness ==
    /\ TickedAlu({"IncMemHl"})
    /\ Operand8 = \hFF
    /\ Result8 = 0
    /\ NewFlag("Z") = 1
    /\ NewFlag("H") = 1
    /\ OldFlag("C") = 0
    /\ NewFlag("C") = 0

AndOps == {"AndAR8", "AndAMemHl", "AndAImm8"}
XorOps == {"XorAR8", "XorAMemHl", "XorAImm8"}
OrOps == {"OrAR8", "OrAMemHl", "OrAImm8"}

\* C17: for every prior flag state and every operand form, AND leaves
\* A = a & b with Z = (A = 0), N = 0, H = 1, C = 0, and OR and XOR leave
\* A = a | b and A = a ^ b with Z = (A = 0), N = 0, H = 0, C = 0.
C17_Logic ==
    /\ TickedAlu(AndOps) =>
           /\ NewA = BitAnd(OldA, Operand8, 8)
           /\ FlagsAre(NewA = 0, FALSE, TRUE, FALSE)
    /\ TickedAlu(OrOps) =>
           /\ NewA = BitOr(OldA, Operand8, 8)
           /\ FlagsAre(NewA = 0, FALSE, FALSE, FALSE)
    /\ TickedAlu(XorOps) =>
           /\ NewA = BitXor(OldA, Operand8, 8)
           /\ FlagsAre(NewA = 0, FALSE, FALSE, FALSE)

RotateOps == {"Rlca", "Rrca", "Rla", "Rra"}

\* C18: with a the old A and c the old carry, RLCA / RRCA / RLA / RRA leave
\* Z = N = H = 0 and C = the bit rotated out (bit 7 for the left rotates,
\* bit 0 for the right ones); RLCA and RRCA put that bit back in at the
\* other end, RLA and RRA put c in; and RLCA then RRCA, and RLA then RRA,
\* end with the A they started from.
C18_Rotates ==
    /\ TickedAlu({"Rlca"}) =>
           /\ NewA = ((OldA * 2) % 256) + (OldA \div 128)
           /\ FlagsAre(FALSE, FALSE, FALSE, OldA \div 128 = 1)
    /\ TickedAlu({"Rrca"}) =>
           /\ NewA = (OldA \div 2) + (128 * (OldA % 2))
           /\ FlagsAre(FALSE, FALSE, FALSE, OldA % 2 = 1)
    /\ TickedAlu({"Rla"}) =>
           /\ NewA = ((OldA * 2) % 256) + OldFlag("C")
           /\ FlagsAre(FALSE, FALSE, FALSE, OldA \div 128 = 1)
    /\ TickedAlu({"Rra"}) =>
           /\ NewA = (OldA \div 2) + (128 * OldFlag("C"))
           /\ FlagsAre(FALSE, FALSE, FALSE, OldA % 2 = 1)
    /\ (TickedAlu(RotateOps) /\ steps = 2
          /\ last.program \in {<<\h07, \h0F>>, <<\h17, \h1F>>}) =>
           NewA = read_8(last.start, "A")

\* RLA then RRA on A = 0x80 with the carry set: 0x80 -> 0x01 -> 0x80
C18_Witness ==
    /\ TickedAlu({"Rra"})
    /\ steps = 2
    /\ last.program = <<\h17, \h1F>>
    /\ read_8(last.start, "A") = \h80
    /\ read_flag(last.start, "C") = 1
    /\ OldA = \h01
    /\ OldFlag("C") = 1
    /\ NewA = \h80
    /\ NewFlag("C") = 1

(***************************************************************************)
(* DAA, as test_daa_no_change .. test_daa_n_false_half_alternative_small   *)
(* set it up: the host writes A and the flags and runs opcode 0x27.        *)
(***************************************************************************)
DaaProgram == <<\h27>>

InitDaa ==
    /\ \E z \in 0..1, n \in 0..1, h \in 0..1, cy \in 0..1, a \in U8 :
         registers = WithFlags(RegistersNew(combine(a, 0), 0, 0, 0, 0, 0),
                               z, n, h, cy)
    /\ memory = LoadBytes(MemoryNew, 0, DaaProgram)
    /\ last = [op |-> "new", program |-> DaaProgram, cycles |-> <<>>,
               start |-> registers]
    /\ fault = "none"
    /\ overflow_checks \in BOOLEAN
    /\ steps = 0

NextDaa == TickAlu

SpecDaa == InitDaa /\ [][NextDaa]_vars

\* whether the adjustment of the last DAA includes 0x06, and 0x60
DaaLow == OldFlag("H") = 1 \/ OldA % 16 > 9
DaaHigh == OldFlag("C") = 1 \/ OldA > \h99

DaaAdjustment == (IF DaaLow THEN \h06 ELSE 0) + (IF DaaHigh THEN \h60 ELSE 0)

\* C19: DAA adjusts A by 0x06 exactly when H = 1 or the low nibble of A
\* exceeds 9, and by 0x60 exactly when C = 1 or A exceeds 0x99; the
\* adjustment is added when N = 0 and subtracted when N = 1, modulo 256;
\* afterwards H = 0, N is unchanged, Z = (A = 0), and C is 1 exactly when
\* 0x60 was applied.
C19_Daa ==
    TickedAlu({"Daa"}) =>
        /\ NewA = IF OldFlag("N") = 0 THEN (OldA + DaaAdjustment) % 256
                  ELSE (OldA - DaaAdjustment) % 256
        /\ FlagsAre(NewA = 0, OldFlag("N") = 1, FALSE, DaaHigh)

\* A = 0x9A after an addition, no flag set: both corrections apply and the
\* result wraps to 0 with Z and C set
C19_Witness ==
    /\ TickedAlu({"Daa"})
    /\ OldA = \h9A
    /\ OldFlag("N") = 0
    /\ OldFlag("H") = 0
    /\ OldFlag("C") = 0
    /\ NewA = 0
    /\ NewFlag("Z") = 1
    /\ NewFlag("C") = 1

(***************************************************************************)
(* 16-bit arithmetic and the indirect loads through BC, DE, HL+ and HL-,   *)
(* as test_ld_r16mem_a, test_ld_a_r16mem, test_inc_r16, test_dec_r16 and   *)
(* test_add_hl_r16 set them up: the host writes A, the flags, HL and the   *)
(* other pairs, a byte at each address, and the opcode at address 0.       *)
(***************************************************************************)
WideOpcodes ==
    {\h09, \h19, \h29, \h39,  \h03, \h13, \h23, \h33,
     \h0B, \h1B, \h2B, \h3B,  \h02, \h12, \h22, \h32,
     \h0A, \h1A, \h2A, \h3A}

WideWords ==
    {\h0000, \h0001, \h0800, \h0FFF, \h8000, \hC000, \hF000, \hFFFF}

WideA == \hAB

InitWide ==
    /\ \E z \in 0..1, n \in 0..1, h \in 0..1, cy \in 0..1,
          hl \in WideWords, other \in WideWords, opcode \in WideOpcodes :
         /\ registers = WithFlags(RegistersNew(combine(WideA, 0), other, other,
                                               hl, other, 0),
                                  z, n, h, cy)
         /\ memory = LoadBytes(LoadBytes(LoadBytes(MemoryNew, other, <<\h3C>>),
                                         hl, <<\h5A>>),
                               0, <<opcode>>)
         /\ last = [op |-> "new", program |-> <<opcode>>, cycles |-> <<>>,
                    start |-> registers]
    /\ fault = "none"
    /\ overflow_checks \in BOOLEAN
    /\ steps = 0

NextWide == TickAlu

SpecWide == InitWide /\ [][NextWide]_vars

\* the pair the last instruction names, before and after the tick
OldPair == read_16(last.before, last.ins.x)
NewPair == read_16(registers, last.ins.x)

\* C16: ADD HL,r16 for BC, DE, HL and SP, with a the old HL and b the old
\* pair, leaves HL = (a+b) mod 65536, N = 0,
\* H = ((a&0xFFF)+(b&0xFFF) > 0xFFF), C = (a+b > 0xFFFF) and Z as it was;
\* INC r16 and DEC r16 leave the pair one higher / lower modulo 65536 and
\* every flag as it was.
C16_Wide ==
    /\ TickedAlu({"AddHlR16"}) =>
           /\ registers.hl = (last.before.hl + OldPair) % 65536
           /\ FlagsAre(OldFlag("Z") = 1, FALSE,
                       (last.before.hl % 4096) + (OldPair % 4096) > 4095,
                       last.before.hl + OldPair > 65535)
    /\ TickedAlu({"IncR16"}) =>
           /\ NewPair = (OldPair + 1) % 65536
           /\ read_8(registers, "F") = read_8(last.before, "F")
    /\ TickedAlu({"DecR16"}) =>
           /\ NewPair = (OldPair - 1) % 65536
           /\ read_8(registers, "F") = read_8(last.before, "F")

\* ADD HL,SP with HL = 0xFFFF and SP = 1: HL wraps to 0 with H and C set
\* and the clear Z flag stays clear
C16_Witness ==
    /\ TickedAlu({"AddHlR16"})
    /\ last.ins.x = "SP"
    /\ last.before.hl = \hFFFF
    /\ last.before.sp = \h0001
    /\ registers.hl = 0
    /\ OldFlag("Z") = 0
    /\ NewFlag("Z") = 0
    /\ NewFlag("H") = 1
    /\ NewFlag("C") = 1

\* the address an indirect load through BC, DE, HL+ or HL- uses
IndirectAddress ==
    IF last.ins.x = "BC" THEN last.before.bc
    ELSE IF last.ins.x = "DE" THEN last.before.de
    ELSE last.before.hl

\* HL after an indirect load, as the addressing form says
SteppedHl ==
    IF last.ins.x = "Hli" THEN (last.before.hl + 1) % 65536
    ELSE IF last.ins.x = "Hld" THEN (last.before.hl - 1) % 65536
    ELSE last.before.hl

\* C20: LD (HL+),A and LD (HL-),A store A at the old HL, LD A,(HL+) and
\* LD A,(HL-) load A from the old HL, and afterwards HL is one higher
\* (HL+) or one lower (HL-) modulo 65536; the forms through BC and DE
\* access the byte at BC / DE and leave BC, DE and HL unchanged.
C20_IndirectLoads ==
    /\ TickedAlu({"LdR16MemA"}) =>
           /\ read_byte(memory, IndirectAddress) = OldA
           /\ registers.hl = SteppedHl
           /\ registers.bc = last.before.bc
           /\ registers.de = last.before.de
    /\ TickedAlu({"LdAR16Mem"}) =>
           /\ NewA = read_byte(last.mem, IndirectAddress)
           /\ registers.hl = SteppedHl
           /\ registers.bc = last.before.bc
           /\ registers.de = last.before.de

(***************************************************************************)
(* Loads, as test_ld_r16_imm16 .. test_ld_memimm16_sp, test_ld_r8_imm8,    *)
(* test_ld_r8_r8 .. test_ld_memhl_r8 and test_ldh_memc_a ..                *)
(* test_ld_a_mem_imm16 set them up: the host writes the registers and the  *)
(* flags, a byte at each address the loads read, and the instruction with  *)
(* its operand bytes at address 0.                                         *)
(***************************************************************************)
LoadOpcodes ==
    {\h41, \h78, \h7F, \h47,  \h06, \h3E,  \h46, \h7E,  \h70, \h77,  \h36,
     \h01, \h11, \h21, \h31,  \h0A, \h1A, \h2A, \h3A,  \h02, \h12, \h22, \h32,
     \hE0, \hF0, \hE2, \hF2,  \hEA, \hFA,  \h08, \hF9}

LoadOperands == {<<\h80, \hFF>>, <<\h00, \hC0>>, <<\h00, \hE0>>}

\* the registers the host has written: every pair points at a backed byte
LoadRegisters(z, n, h, cy) ==
    WithFlags(RegistersNew(combine(\hAB, 0), \h1280, \hC0DE, \hD000, \hDFF0, 0),
              z, n, h, cy)

\* a distinct byte at each address a load of this setup can read
LoadMemory(program) ==
    LoadBytes(LoadBytes(LoadBytes(LoadBytes(LoadBytes(LoadBytes(MemoryNew,
        \hFF80, <<\h77>>), \hFF00, <<\h66>>), \hC000, <<\h55>>),
        \hD000, <<\h5A>>), \hC0DE, <<\h3C>>), 0, program)

InitLoad ==
    /\ \E z \in 0..1, n \in 0..1, h \in 0..1, cy \in 0..1,
          opcode \in LoadOpcodes, operand \in LoadOperands :
         /\ registers = LoadRegisters(z, n, h, cy)
         /\ memory = LoadMemory(<<opcode>> \o operand)
         /\ last = [op |-> "new", program |-> <<opcode>> \o operand,
                    cycles |-> <<>>, start |-> registers]
    /\ fault = "none"
    /\ overflow_checks \in BOOLEAN
    /\ steps = 0

NextLoad == TickAlu

SpecLoad == InitLoad /\ [][NextLoad]_vars

LoadOps ==
    {"LdR8R8", "LdR8Imm8", "LdR8MemHl", "LdMemHlR8", "LdMemHlImm8",
     "LdR16Imm16", "LdAR16Mem", "LdR16MemA",
     "LdhMemCA", "LdhMemImm8A", "LdAMemC", "LdhAMemImm8",
     "LdMemImm16A", "LdAMemImm16", "LdMemImm16SP", "LdSpHl"}

\* C21: a tick that fetched a load other than ADD SP,e8 and LD HL,SP+e8
\* (register, immediate, (HL), (BC)/(DE)/(HL+)/(HL-), LDH, (C), (imm16),
\* LD (imm16),SP, LD SP,HL) leaves each of Z, N, H and C as it was, whether
\* the load completed or ended in a bus fault.
C21_LoadsKeepFlags ==
    (last.op = "tick" /\ last.ins.op \in LoadOps) =>
        \A f \in Flag : NewFlag(f) = OldFlag(f)

\* LDH A,(0x80) replaced A by the byte at 0xFF80 with all four flags set
C21_Witness ==
    /\ TickedAlu({"LdhAMemImm8"})
    /\ OldA = \hAB
    /\ NewA = \h77
    /\ \A f \in Flag : OldFlag(f) = 1 /\ NewFlag(f) = 1

(***************************************************************************)
(* ADD SP,e8 and LD HL,SP+e8, as test_add_sp_imm8_positive ..              *)
(* test_ld_hl_sp_imm8_negative set them up: the host writes SP and runs    *)
(* the instruction with its offset byte.                                   *)
(***************************************************************************)
SpRelOpcodes == {\hE8, \hF8}

SpValues ==
    {\h0000, \h0001, \h000F, \h00F0, \h00FF, \h0FFF, \h1234, \h12FF,
     \h7FFF, \hFF80, \hFFFF}

InitSpRel ==
    /\ \E flags \in 0..1, sp \in SpValues, e \in U8, opcode \in SpRelOpcodes :
         /\ registers = WithFlags(RegistersNew(0, 0, 0, \hC000, sp, 0),
                                  flags, flags, flags, flags)
         /\ memory = LoadBytes(MemoryNew, 0, <<opcode, e>>)
         /\ last = [op |-> "new", program |-> <<opcode, e>>, cycles |-> <<>>,
                    start |-> registers]
    /\ fault = "none"
    /\ overflow_checks \in BOOLEAN
    /\ steps = 0

NextSpRel == TickAlu

SpecSpRel == InitSpRel /\ [][NextSpRel]_vars

\* what the last SP-relative instruction stored: SP for ADD SP,e8 and HL
\* for LD HL,SP+e8
SpRelStored ==
    IF last.ins.op = "AddSpImm8" THEN registers.sp ELSE registers.hl

\* C22: for every SP and offset byte e, ADD SP,e8 and LD HL,SP+e8 store
\* (SP + sign-extended e) mod 65536 in SP resp. HL, clear Z and N, and set
\* H to the carry out of bit 3 and C to the carry out of bit 7 of the
\* unsigned addition of SP's low byte and e.
C22_SpRelative ==
    TickedAlu({"AddSpImm8", "LdHlSpImm8"}) =>
        /\ SpRelStored = (last.before.sp + sign_extend(last.ins.x)) % 65536
        /\ FlagsAre(FALSE, FALSE,
                    (last.before.sp % 16) + (last.ins.x % 16) > 15,
                    (last.before.sp % 256) + last.ins.x > 255)

\* the registers the other SP-relative instruction leaves when executed
\* from the state the last one was executed from
SpRelOther ==
    execute(Machine(last.before, last.mem),
            Ins1(IF last.ins.op = "AddSpImm8" THEN "LdHlSpImm8"
                 ELSE "AddSpImm8", last.ins.x)).registers

\* C27: from the same SP and offset byte, the value ADD SP,e8 stores in SP
\* equals the value LD HL,SP+e8 stores in HL, and the two leave the same
\* Z, N, H and C.
C27_SpRelativeAgree ==
    TickedAlu({"AddSpImm8", "LdHlSpImm8"}) =>
        /\ SpRelStored = IF last.ins.op = "AddSpImm8" THEN SpRelOther.hl
                         ELSE SpRelOther.sp
        /\ \A f \in Flag : NewFlag(f) = read_flag(SpRelOther, f)

(***************************************************************************)
(* Relative jumps, as test_jr_imm8, test_jr_imm8_negative and              *)
(* test_jr_cond_imm8 set them up: the host writes PC and the flags and     *)
(* stores the two bytes of the jump at PC.                                 *)
(***************************************************************************)
JrOpcodes == {\h18, \h20, \h28, \h30, \h38}

JrPcs == {\h0000, \h0080, \hC000, \hDFFE, \hFFF0, \hFFFD, \hFFFE}

JrOffsets == {\h00, \h01, \h05, \h7F, \h80, \hFD, \hFE, \hFF}

InitJr ==
    /\ \E z \in 0..1, cy \in 0..1, pc \in JrPcs,
          opcode \in JrOpcodes, e \in JrOffsets :
         /\ registers = WithFlags(RegistersNew(0, 0, 0, 0, \hD000, pc),
                                  z, 0, 0, cy)
         /\ memory = LoadBytes(MemoryNew, pc, <<opcode, e>>)
         /\ last = [op |-> "new", program |-> <<opcode, e>>, cycles |-> <<>>,
                    start |-> registers]
    /\ fault = "none"
    /\ overflow_checks \in BOOLEAN
    /\ steps = 0

NextJr == Tick

SpecJr == InitJr /\ [][NextJr]_vars

\* the condition a JR opcode byte encodes
JrCondition(opcode) ==
    CASE opcode = \h20 -> "NotZero"
      [] opcode = \h28 -> "Zero"
      [] opcode = \h30 -> "NotCarry"
      [] opcode = \h38 -> "Carry"

\* the two bytes at PC are a JR that the flags in regs make taken
JrTakenAt(regs, mem) ==
    LET opcode == read_byte(mem, regs.pc) IN
    \/ opcode = \h18
    \/ opcode \in {\h20, \h28, \h30, \h38}
         /\ FlagsSay(regs, JrCondition(opcode))

\* the offset byte of the jump at PC
JrOffsetAt(regs, mem) == read_byte(mem, Wrap16(regs.pc + 1))

\* C23: one tick on a taken JR (conditional or not) located at p with
\* offset byte e leaves PC = (p + 2 + sign-extended e) mod 65536; with
\* e = 0xFE that is p again, and every later tick of the run finds PC = p.
C23_JrTarget ==
    /\ (last.op = "tick" /\ JrTakenAt(last.before, last.mem)) =>
           /\ fault = "none"
           /\ registers.pc
                = (last.before.pc + 2
                     + sign_extend(JrOffsetAt(last.before, last.mem))) % 65536
    /\ (last.op = "tick" /\ JrTakenAt(last.start, memory)
          /\ JrOffsetAt(last.start, memory) = \hFE) =>
           /\ fault = "none"
           /\ registers.pc = last.start.pc

(***************************************************************************)
(* CALL followed by RET, as test_call_imm16, test_call_cond_imm16_taken,   *)
(* test_ret and test_ret_cond_taken set them up: the host writes PC, SP    *)
(* and the flags, stores a call at PC and a return at the call's target.   *)
(***************************************************************************)
CallOpcodes == {\hCD, \hC4, \hCC, \hD4, \hDC}

RetOpcodes == {\hC9, \hC0, \hC8, \hD0, \hD8}

CallPcs == {\h0100, \hC000}

CallTargets == {<<\h00, \h02>>, <<\h00, \hC1>>}

CallPointers == {\h0000, \h0001, \h0002, \hD000, \hDFFE, \hE002, \hFFFE}

InitCall ==
    /\ \E z \in 0..1, cy \in 0..1, pc \in CallPcs, sp \in CallPointers,
          call \in CallOpcodes, ret \in RetOpcodes, target \in CallTargets :
         /\ registers = WithFlags(RegistersNew(0, 0, 0, 0, sp, pc),
                                  z, 0, 0, cy)
         /\ memory = LoadBytes(LoadBytes(MemoryNew,
                                         combine(target[2], target[1]),
                                         <<ret>>),
                               pc, <<call>> \o target)
         /\ last = [op |-> "new", program |-> <<call>> \o target,
                    cycles |-> <<>>, start |-> registers]
    /\ fault = "none"
    /\ overflow_checks \in BOOLEAN
    /\ steps = 0

NextCall == Tick

SpecCall == InitCall /\ [][NextCall]_vars

\* the last tick fetched a CALL that the flags before it make taken
TickedCall ==
    /\ last.op = "tick"
    /\ \/ last.ins.op = "CallImm16"
       \/ last.ins.op = "CallCondImm16" /\ FlagsSay(last.before, last.ins.x)

\* the target of the CALL the last tick fetched
CallTarget ==
    IF last.ins.op = "CallImm16" THEN last.ins.x ELSE last.ins.y

\* the last tick fetched a RET that the flags before it make taken
TickedRet ==
    /\ last.op = "tick"
    /\ \/ last.ins.op = "Ret"
       \/ last.ins.op = "RetCond" /\ FlagsSay(last.before, last.ins.x)

\* the condition a CALL opcode byte encodes ("Always" for CALL nn)
CallCondition(opcode) ==
    CASE opcode = \hC4 -> "NotZero"
      [] opcode = \hCC -> "Zero"
      [] opcode = \hD4 -> "NotCarry"
      [] opcode = \hDC -> "Carry"
      [] OTHER -> "Always"

\* the run started on a CALL that its flags make taken
StartedOnCall ==
    \/ CallCondition(last.program[1]) = "Always"
    \/ FlagsSay(last.start, CallCondition(last.program[1]))

\* C24: a CALL nn or taken CALL cond located at p, with both stack bytes
\* below SP mapped, leaves SP two lower, the low byte of p+3 at the new SP
\* and its high byte at the new SP + 1, and PC = nn; a RET or taken RET cond
\* executed next leaves PC = p+3 and SP as it was before the CALL.
C24_CallRet ==
    /\ (TickedCall /\ WordBacked(Wrap16(last.before.sp - 2))) =>
           /\ fault = "none"
           /\ registers.sp = Wrap16(last.before.sp - 2)
           /\ read_byte(memory, registers.sp)
                = Wrap16(last.before.pc + 3) % 256
           /\ read_byte(memory, Wrap16(registers.sp + 1))
                = Wrap16(last.before.pc + 3) \div 256
           /\ registers.pc = CallTarget
    /\ (TickedRet /\ steps = 2 /\ StartedOnCall
          /\ WordBacked(Wrap16(last.start.sp - 2))) =>
           /\ fault = "none"
           /\ registers.pc = Wrap16(last.start.pc + 3)
           /\ registers.sp = last.start.sp

(***************************************************************************)
(* One tick on every first byte, and on every second byte after the 0xCB   *)
(* prefix, with every pointer register on work RAM so that no operand      *)
(* access leaves the mapped bus.                                           *)
(***************************************************************************)
OpsSeconds == {\h02, \h80}

OpsRegisters(z, n, h, cy) ==
    WithFlags(RegistersNew(\h1200, \hC010, \hC020, \hC030, \hD000, \h0100),
              z, n, h, cy)

InitOps ==
    /\ \E b0 \in U8, f \in 0..1 :
         \E b1 \in IF b0 = \hCB THEN U8 ELSE OpsSeconds :
           /\ registers = OpsRegisters(f, f, f, f)
           /\ memory = LoadBytes(MemoryNew, \h0100, <<b0, b1, \hC0>>)
           /\ last = [op |-> "new", program |-> <<b0, b1, \hC0>>,
                      cycles |-> <<>>, start |-> registers]
    /\ fault = "none"
    /\ overflow_checks \in BOOLEAN
    /\ steps = 0

NextOps == TickAlu

SpecOps == InitOps /\ [][NextOps]_vars

\* the first byte of the instruction the last tick fetched
TickedOpcode == read_byte(last.mem, last.before.pc)

\* the first bytes of STOP, HALT, RETI, DI and EI
UnimplementedOpcodes == {\h10, \h76, \hD9, \hF3, \hFB}

\* the first bytes for which fetch_instruction has no arm
UnknownOpcodes ==
    {\hD3, \hDB, \hDD, \hE3, \hE4, \hEB, \hEC, \hED, \hF4, \hFC, \hFD}

OpcodeFetched ==
    /\ last.op = "fetch_instruction"
    /\ fetch_byte(Machine(last.before, memory)).c.fault = "none"

\* the instructions map_prefixed_instruction can return
PrefixedOps == TodoOps \ {"Stop", "Halt", "Reti", "Di", "Ei"}

\* C26: once the opcode byte is fetched, fetch_instruction ends in the
\* unknown-opcode panic exactly when that byte is one of 0xD3, 0xDB, 0xDD,
\* 0xE3, 0xE4, 0xEB, 0xEC, 0xED, 0xF4, 0xFC, 0xFD; no other first byte ends
\* in that panic or in the panic of a selector conversion, and each returns
\* an instruction unless an operand fetch faults; after the prefix 0xCB
\* every second byte that is fetched returns a prefixed instruction.
C26_DecoderTotal ==
    OpcodeFetched =>
        /\ (fault = "unknown_opcode") <=> (Opcode \in UnknownOpcodes)
        /\ fault # "invalid_selector"
        /\ fault = "none" => last.ins.op # "panic"
        /\ (Opcode \notin UnknownOpcodes
              /\ registers.pc = Wrap16(last.before.pc + EncodedLength(Opcode)))
             => fault = "none"
        /\ (Opcode = \hCB /\ fault = "none") =>
               /\ last.ins.op \in PrefixedOps
               /\ last.ins = map_prefixed_instruction(ByteAfter(1)).ins

C26_Witness ==
    /\ OpcodeFetched
    /\ Opcode = \hED
    /\ fault = "unknown_opcode"
    /\ registers.pc = Wrap16(last.before.pc + 1)

(***************************************************************************)
(* Word stores next to echo RAM: the host calls write_word, or one tick    *)
(* runs an instruction that stores a word (PUSH, CALL, RST, LD (nn),SP).   *)
(* The last byte of work RAM holds 0x5A beforehand.                        *)
(***************************************************************************)
StoreOpcodes == {\hC5, \hCD, \hC4, \hFF, \h08}

StoreOperands == {<<\hFF, \hDF>>, <<\h00, \hE0>>, <<\h34, \hF2>>,
                  <<\h00, \hC0>>}

StorePointers == {\hD000, \hE001, \hE002, \hF236, \hFDFF}

StoreAddrs == {\hC000, \hDFFE, \hDFFF, \hE000, \hF234, \hFDFF}

InitStore ==
    /\ \E sp \in StorePointers, opcode \in StoreOpcodes,
          operand \in StoreOperands :
         /\ registers = RegistersNew(\hA100, \h12AB, 0, 0, sp, \h0100)
         /\ memory = LoadBytes(LoadBytes(MemoryNew, \hDFFF, <<\h5A>>),
                               \h0100, <<opcode>> \o operand)
         /\ last = [op |-> "new", program |-> <<opcode>> \o operand,
                    cycles |-> <<>>, start |-> registers]
    /\ fault = "none"
    /\ overflow_checks \in BOOLEAN
    /\ steps = 0

\* the host calls memory.write_word(adress, value)
HostWriteWord(adress, value) ==
    /\ fault = "none"
    /\ steps < MaxAluTicks
    /\ fault' = write_word(memory, adress, value).fault
    /\ memory' = write_word(memory, adress, value).memory
    /\ last' = [op |-> "write_word", adress |-> adress, value |-> value,
                mem |-> memory, start |-> last.start,
                program |-> last.program, cycles |-> last.cycles]
    /\ steps' = steps + 1
    /\ UNCHANGED <<registers, overflow_checks>>

NextStore ==
    \/ TickAlu
    \/ \E a \in StoreAddrs, v \in MemWords : HostWriteWord(a, v)

SpecStore == InitStore /\ [][NextStore]_vars

\* the address lies in echo RAM
InEchoRam(adress) == \hE000 <= adress /\ adress <= \hFDFF

\* the last step was a word store: write_word itself, or a tick on PUSH,
\* CALL, taken CALL cond, RST or LD (nn),SP
WordStored ==
    \/ last.op = "write_word"
    \/ /\ last.op = "tick"
       /\ \/ last.ins.op \in {"PushR16Stk", "CallImm16", "RstTgt3",
                              "LdMemImm16SP"}
          \/ /\ last.ins.op = "CallCondImm16"
             /\ FlagsSay(last.before, last.ins.x)

\* the address that word store was given
WordStoredAt ==
    IF last.op = "write_word" THEN last.adress
    ELSE IF last.ins.op = "LdMemImm16SP" THEN last.ins.x
    ELSE Wrap16(last.before.sp - 2)

\* the word that word store was given
WordStoredValue ==
    IF last.op = "write_word" THEN last.value
    ELSE IF last.ins.op = "LdMemImm16SP" THEN last.before.sp
    ELSE IF last.ins.op = "PushR16Stk" THEN read_16(last.before, last.ins.x)
    ELSE IF last.ins.op = "RstTgt3" THEN Wrap16(last.before.pc + 1)
    ELSE Wrap16(last.before.pc + 3)

\* C28: a word store at 0xDFFF, by write_word or by PUSH, CALL, RST or
\* LD (nn),SP, ends in a bus fault with the low byte of the word stored at
\* 0xDFFF and no other byte changed, so that memory differs from what it
\* was unless 0xDFFF already held that byte; a word store at an address
\* inside echo RAM ends in a bus fault with memory unchanged.
C28_TornWordStore ==
    WordStored =>
        /\ WordStoredAt = \hDFFF =>
               /\ fault = "bus"
               /\ memory = write_byte(last.mem, \hDFFF, WordStoredValue % 256)
               /\ read_byte(last.mem, \hDFFF) # WordStoredValue % 256
                    => memory # last.mem
        /\ InEchoRam(WordStoredAt) =>
               /\ fault = "bus"
               /\ memory = last.mem

C28_Witness ==
    /\ last.op = "tick"
    /\ last.ins.op = "PushR16Stk"
    /\ last.before.sp = \hE001
    /\ fault = "bus"
    /\ read_byte(last.mem, \hDFFF) = \h5A
    /\ read_byte(memory, \hDFFF) = \hAB
    /\ registers.sp = \hE001

(***************************************************************************)
(* Decimal arithmetic: the host writes two packed-BCD bytes to A and B,    *)
(* clears the carry, and runs ADD A,B or SUB A,B followed by DAA.          *)
(***************************************************************************)
\* the packed-BCD byte of a number in 0..99, and the number of such a byte
Bcd(n) == ((n \div 10) * 16) + (n % 10)

Decimal(byte) == ((byte \div 16) * 10) + (byte % 16)

BcdBytes == {Bcd(n) : n \in 0..99}

BcdPrograms == {<<\h80, \h27>>, <<\h90, \h27>>}

InitBcd ==
    /\ \E a \in BcdBytes, b \in BcdBytes, f \in 0..1,
          program \in BcdPrograms :
         /\ registers = WithFlags(RegistersNew(combine(a, 0), combine(b, 0),
                                               0, 0, 0, 0),
                                  f, f, f, 0)
         /\ memory = LoadBytes(MemoryNew, 0, program)
         /\ last = [op |-> "new", program |-> program, cycles |-> <<>>,
                    start |-> registers]
    /\ fault = "none"
    /\ overflow_checks \in BOOLEAN
    /\ steps = 0

NextBcd == TickAlu

SpecBcd == InitBcd /\ [][NextBcd]_vars

\* the decimal numbers the run started with in A and B
DecimalA == Decimal(read_8(last.start, "A"))

DecimalB == Decimal(read_8(last.start, "B"))

\* the DAA that is the second instruction of the run has completed
AdjustedAfter(opcode) ==
    /\ TickedAlu({"Daa"})
    /\ steps = 2
    /\ last.program[1] = opcode

\* C29: for packed-BCD a and b and carry 0, ADD A,b from A = a followed by
\* DAA leaves A = the packed BCD of (a + b) mod 100 and C = 1 exactly when
\* the decimal sum is 100 or more; SUB A,b followed by DAA leaves A = the
\* packed BCD of (a - b) mod 100 and C = 1 exactly when a < b; in both
\* cases Z = 1 exactly when the resulting A is 0.
C29_DecimalAdjust ==
    /\ AdjustedAfter(\h80) =>
           /\ NewA = Bcd((DecimalA + DecimalB) % 100)
           /\ NewFlag("C") = Bool(DecimalA + DecimalB >= 100)
           /\ NewFlag("Z") = Bool(NewA = 0)
    /\ AdjustedAfter(\h90) =>
           /\ NewA = Bcd((DecimalA - DecimalB) % 100)
           /\ NewFlag("C") = Bool(DecimalA < DecimalB)
           /\ NewFlag("Z") = Bool(NewA = 0)

\* 42 - 19 = 23: the SUB borrows from the high nibble and DAA takes 6 off
C29_Witness ==
    /\ AdjustedAfter(\h90)
    /\ read_8(last.start, "A") = \h42
    /\ read_8(last.start, "B") = \h19
    /\ OldA = \h29
    /\ OldFlag("H") = 1
    /\ NewA = \h23
    /\ NewFlag("C") = 0

(***************************************************************************)
(* The run from power-on: Cpu::new and Memory::new, then tick after tick   *)
(* with no other access to the registers or the bus.  The step counts the  *)
(* ticks that returned.                                                    *)
(***************************************************************************)
MaxRunTicks == 65536

InitRun ==
    /\ registers = CpuNew
    /\ memory = MemoryNew
    /\ fault = "none"
    /\ overflow_checks \in BOOLEAN
    /\ last = [op |-> "new", returned |-> 0]
    /\ steps = 0

\* the state after a tick of the run that fetched ins and left the machine
\* after
RunTickReturns(ins, after) ==
    /\ registers' = after.registers
    /\ memory' = after.memory
    /\ fault' = after.fault
    /\ last' = [op |-> "tick", before |-> registers, ins |-> ins,
                ret |-> after.ret,
                returned |-> IF after.fault = "none"
                             THEN last.returned + 1 ELSE last.returned]

RunTick ==
    /\ fault = "none"
    /\ steps < MaxRunTicks
    /\ RunTickReturns(fetch_instruction(Machine(registers, memory)).ins,
                      tick(Machine(registers, memory)))
    /\ steps' = steps + 1
    /\ UNCHANGED overflow_checks

NextRun == RunTick

SpecRun == InitRun /\ [][NextRun]_vars

\* A step that raises the count of ticks.  In a behaviour of SpecRun it is
\* a RunTick step and nothing else, and it is possible exactly when RunTick
\* is: tick gives a result, a return or a panic, from every machine.
TickCalled == fault = "none" /\ steps < MaxRunTicks /\ steps' = steps + 1

\* the run of the claim: the host calls tick again for as long as the
\* process has not panicked
SpecRunFair == SpecRun /\ WF_steps(TickCalled)

\* a tick of the run from PC below 0xE000 is a NOP: one cycle, PC one
\* higher, nothing else changed; the tick from PC = 0xE000 ends in a bus
\* fault, and 0xE000 ticks have returned by then
RunStep ==
    /\ memory = MemoryNew
    /\ registers.pc = last.returned
    /\ last.op = "tick" =>
           IF last.before.pc < \hE000
           THEN /\ fault = "none"
                /\ last.ins.op = "Nop"
                /\ last.ret = 1
                /\ registers = [last.before EXCEPT !.pc = @ + 1]
           ELSE /\ last.before.pc = \hE000
                /\ fault = "bus"
                /\ registers = last.before
                /\ last.returned = \hE000

\* the run has ended in the bus fault of the fetch at 0xE000
RunEnded == fault = "bus" /\ registers.pc = \hE000 /\ last.returned = \hE000

====
